---- MODULE Spec2Model ----
(***************************************************************************)
(* A model of the request orchestration, tool loop and terminal approval   *)
(* code of the assistant backend (src/source).  The specifications share   *)
(* the state; the first three are:                                         *)
(*   SpecTurn      ConversationService.submit_query tasks and the request  *)
(*                 lock (services/conversations.py)                        *)
(*   SpecApproval  TerminalService.check_approval / resolve_approval /     *)
(*                 cancel_all_pending and session mode (services/terminal) *)
(*   SpecLoop      the provider tool loops (mcp_integration/handlers.py,   *)
(*                 mcp_integration/cloud_tool_handlers.py)                 *)
(* Every coroutine is cut at its await points: one action is the code that *)
(* runs between two suspensions of the single asyncio event loop.          *)
(***************************************************************************)
EXTENDS Integers, Sequences, FiniteSets, TLC

\* ---------------------------------------------------------------- bounds
MaxTasks == 3
MaxTurns == 3
MaxCallers == 2
MaxRequests == 2
MaxToolCalls == 2           \* tool calls in one provider response
MaxStore == 3               \* entries of exec-approvals.json
MaxClients == 3      \* WebSocket clients
MaxBroadcasts == 2   \* broadcast calls
MaxTools == 3        \* entries of a tool list
MaxConnecting == 2   \* connect_server calls in flight
LengthSpread == 60   \* result lengths lie this close to the truncation limit
MaxEvents == 3        \* terminal events produced
MaxConversations == 2 \* conversations created
MaxLog == 3           \* output events of the command itself
MaxPersisted == 3     \* turns that reach the persistence step
MaxChunks == 2        \* chunks of one streamed response

\* config.MAX_MCP_TOOL_ROUNDS
MAX_MCP_TOOL_ROUNDS == 30

\* ------------------------------------------------------------- constants
None == 0

Tasks == 1..MaxTasks

\* Concurrent callers of check_approval and the request ids (uuid4) drawn.
Callers == 1..MaxCallers
RequestIds == 1..MaxRequests

\* Commands, as the token list command.strip().split() yields.
Commands == { <<"npm", "install", "left-pad">>, <<"ls", "-la">> }

VARIABLES
    \* --- AppState and submit_query tasks -------------------------------
    tpc,              \* position of each submit_query task
    tctx,             \* the RequestContext each task created (None before)
    current_request,  \* app_state.current_request
    ctx_done,         \* contexts whose _done_event is set
    next_ctx,         \* next fresh RequestContext
    lock_locked,      \* app_state._request_lock._locked
    lock_waiters,     \* app_state._request_lock._waiters (FIFO)
    lock_woken,       \* the head waiter's future has been resolved
    is_streaming,     \* app_state.is_streaming
    stop_streaming,   \* app_state.stop_streaming
    session_mode,     \* terminal_service._session_mode
    \* --- TerminalService approval state --------------------------------
    approval_events,   \* _approval_events: request id -> event is set
    approval_results,  \* _approval_results
    approval_remember, \* _approval_remember
    ask_level,         \* _ask_level
    approvals,         \* the "approvals" list of exec-approvals.json
    next_rid,          \* next fresh uuid4
    session_event,     \* _session_event: "None" or "event"
    session_set,       \* the event a request_session call waits on is set
    session_result,    \* _session_result: "None", "true" or "false"
    spc,               \* position of the request_session call
    \* --- check_approval calls -----------------------------------------
    cpc,               \* position of each check_approval call
    ccmd,              \* its command
    crid,              \* its request_id
    cret,              \* what it returned
    cbcast,            \* request id of the terminal_approval_request sent
    cresp,             \* last response given to resolve_approval for it
    csweep,            \* cancel_all_pending ran after that response
    cswept,            \* cancel_all_pending ran during the wait of the call
    gained,            \* signatures remember_approval has ever saved
    \* --- the tool loop of one turn -------------------------------------
    provider,          \* which provider's loop runs
    lpc,               \* position of the loop
    rounds,            \* rounds
    tool_calls,        \* tool calls of the response left to process
    fn_name,           \* the tool call being processed
    h_approved,        \* the run_command handler's `approved`
    n_calling,         \* tool_call events, status calling, for this call
    n_complete,        \* tool_call events, status complete, for this call
    spawned,           \* a subprocess or PTY was created for this call
    \* --- ConnectionManager ---------------------------------------------
    active_connections, \* manager.active_connections
    alive,             \* the sockets that are open
    bpc,               \* position of each broadcast call
    bidx,              \* the list iterator of each broadcast call
    bdisc,             \* `disconnected` of each broadcast call
    sendq,             \* per socket, the send_text calls not yet completed
    received,          \* per client, the messages delivered to it
    issued,            \* the broadcast calls in the order they were made
    stayed,            \* per broadcast, the clients connected throughout
    \* --- which turn a terminal call belongs to --------------------------
    sowner,            \* the task whose tool loop awaits request_session
    session_ctx,       \* the context of the turn that got session mode
    cowner,            \* the task whose tool loop made each check_approval
    last_auto,         \* the last approval granted by session mode
    \* --- what the run_command handler leaves behind ---------------------
    conversation_id,   \* app_state.conversation_id
    result,            \* result_str of the tool loop
    saved_events,      \* the events the current tool call saved in the
                       \* terminal_events table
    queued_events,     \* the events the current tool call appended to
                       \* terminal_service._pending_events
    \* --- the process environment and the children the core spawns -------
    _IS_WINDOWS,       \* blocklist._IS_WINDOWS
    os_environ,        \* os.environ of the core process
    _ORIGINAL_ENV,     \* terminal._ORIGINAL_ENV
    _ORIGINAL_PATH,    \* terminal._ORIGINAL_PATH
    child,             \* the last attempt to spawn a child process
    \* --- McpToolManager -------------------------------------------------
    _connections,      \* the names of the connected servers
    _tool_registry,    \* tool name -> name of the owning server
    _ollama_tools,     \* the Ollama tool list
    _raw_tools,        \* the raw schemas the cloud tool lists are built from
    _initialized,      \* init_mcp_servers has run
    connecting,        \* the connect_server calls in flight, by server name
    dead,              \* the servers whose subprocess has died
    last_op,           \* the last operation of the manager that returned
    call_result,       \* how the last call_tool ended
    \* --- ToolRetriever ---------------------------------------------------
    _tool_embeddings,       \* the keys of the name -> vector cache
    _embedding_model_type,  \* the embedding backend chosen at start-up
    retrieved,         \* the last retrieve_tools call: its list and its answer
    \* --- the result of a tool call on its way to the provider ------------
    raw_length,        \* len(str(result)) of what the tool returned
    result_str_length, \* len(result_str) of what the loop delivers
    delivered_by,      \* the loop that delivered it
    \* --- deferred terminal events ----------------------------------------
    _pending_events,   \* terminal_service._pending_events
    terminal_events,   \* the rows of the terminal_events table
    n_events,          \* the terminal events produced so far
    n_conversations,   \* the conversations start_new_conversation created
    \* --- one run_command execution and its terminal events ---------------
    xpc,               \* where the run_command call is
    mode,              \* standard, pty (foreground) or background
    proc,              \* the child process
    reader,            \* the session's reader task
    _alive,            \* session._alive
    done_event,        \* session._done_event is set
    registered,        \* the session is in _background_sessions
    _active_process,   \* terminal_service._active_process is set
    timed_out,         \* timed_out of execute_command
    returned_sid,      \* the call returned a session id to the loop
    kill_pc,           \* where each _kill_session call is
    emitted,           \* the terminal events emitted for the request id
    swept,             \* cancel_all_pending removed the registered session
    exit_code,         \* the exit code the execution returned to the handler
    kill_result,       \* what the last kill_process call returned
    \* --- the persistence step of submit_query ----------------------------
    chat_history,      \* app_state.chat_history
    messages,          \* the rows db.add_message has stored, in order
    \* --- the streaming phase of one turn ---------------------------------
    gen_provider,      \* the provider route_chat chose
    gen_pc,            \* where the streaming phase is
    cancelled_at_return, \* stop_streaming when the tool loop returned
    gen_called,        \* the provider's streaming call has been invoked
    n_chunks,          \* chunks the stream has delivered
    turn_events        \* the events broadcast in the streaming phase

turnVars == <<tpc, tctx, current_request, ctx_done, next_ctx, lock_locked,
              lock_waiters, lock_woken, is_streaming>>

apprVars == <<approval_events, approval_results, approval_remember,
              ask_level, approvals, next_rid, session_event, session_set,
              session_result, spc>>

callVars == <<cpc, ccmd, crid, cret, cbcast, cresp, csweep, cswept>>

histVars == <<gained>>

loopVars == <<provider, lpc, rounds, tool_calls, fn_name, h_approved,
              n_calling, n_complete, spawned>>

busVars == <<active_connections, alive, bpc, bidx, bdisc, sendq, received,
            issued, stayed>>

sessVars == <<sowner, session_ctx, cowner, last_auto>>

recVars == <<conversation_id, result, saved_events, queued_events>>

\* The state of the subsystems modelled further down that no terminal call
\* touches.
execVars == <<_IS_WINDOWS, os_environ, _ORIGINAL_ENV, _ORIGINAL_PATH, child>>

regVars == <<_connections, _tool_registry, _ollama_tools, _raw_tools,
             _initialized, connecting, dead, last_op, call_result,
             _tool_embeddings, _embedding_model_type, retrieved>>

truncVars == <<raw_length, result_str_length, delivered_by>>

\* The state of the subsystems modelled last.
evVars == <<_pending_events, terminal_events, n_events, n_conversations>>

ptyVars == <<xpc, mode, proc, reader, _alive, done_event, registered,
             _active_process, timed_out, returned_sid, kill_pc, emitted, swept,
             exit_code, kill_result>>

persistVars == <<chat_history, messages>>

genVars == <<gen_provider, gen_pc, cancelled_at_return, gen_called,
             n_chunks, turn_events>>

lateVars == <<truncVars, evVars, ptyVars, persistVars, genVars>>

extBase == <<busVars, execVars, regVars, lateVars>>

\* The state of the subsystems modelled further down, but for sessVars.
extRest == <<extBase, recVars>>

\* The state of the subsystems modelled further down.
extVars == <<extRest, sessVars>>

vars == <<turnVars, stop_streaming, session_mode, apprVars, callVars,
          histVars, loopVars, extVars>>

\* ======================================================================
\* Request orchestration: ConversationService.submit_query
\* ======================================================================

\* RequestContext.is_done
is_done(c) == c \in ctx_done

\* A turn is open from the moment its context is stored as current until
\* ctx.mark_done() in the finally block.
TurnOpen(t) == tpc[t] \in {"opened", "chat", "saving", "except"}

\* asyncio.Lock.acquire succeeds without suspending only when the lock is
\* free and no waiter is queued.
LockFree == ~lock_locked /\ lock_waiters = <<>>

\* asyncio.Lock.release: unlock and resolve the first waiter's future.
Release(W) ==
    /\ lock_locked' = FALSE
    /\ lock_waiters' = W
    /\ lock_woken' = (W # <<>>)

\* The body of the first `async with app_state._request_lock` of
\* submit_query, run by task t once it holds the lock; W is the waiter
\* queue without t.
GateSection(t, W) ==
    IF current_request # None /\ ~is_done(current_request)
    THEN \* busy: the error broadcast is awaited while the lock is held
         /\ tpc' = [tpc EXCEPT ![t] = "busy"]
         /\ lock_locked' = TRUE
         /\ lock_waiters' = W
         /\ lock_woken' = FALSE
         /\ UNCHANGED <<tctx, current_request, next_ctx, is_streaming,
                        stop_streaming>>
    ELSE /\ next_ctx <= MaxTurns
         /\ tctx' = [tctx EXCEPT ![t] = next_ctx]
         /\ next_ctx' = next_ctx + 1
         /\ current_request' = next_ctx
         /\ is_streaming' = TRUE
         /\ stop_streaming' = FALSE
         /\ tpc' = [tpc EXCEPT ![t] = "opened"]
         /\ Release(W)

\* The body of the `async with app_state._request_lock` of the finally
\* block, followed by the session auto-expiry.
ClearSection(t, W) ==
    /\ current_request' = None
    /\ is_streaming' = FALSE
    /\ Release(W)
    /\ session_mode' = FALSE
    /\ tpc' = [tpc EXCEPT ![t] = "idle"]

\* _handle_submit_query creates the task; the task runs up to its first
\* suspension.
SubmitQuery(t) ==
    /\ tpc[t] = "idle"
    /\ IF LockFree
       THEN GateSection(t, lock_waiters)
       ELSE /\ lock_waiters' = Append(lock_waiters, t)
            /\ tpc' = [tpc EXCEPT ![t] = "gatewait"]
            /\ UNCHANGED <<tctx, current_request, next_ctx, lock_locked,
                           lock_woken, is_streaming, stop_streaming>>
    /\ UNCHANGED <<ctx_done, session_mode>>
    /\ UNCHANGED <<apprVars, callVars, histVars, loopVars, extVars>>

\* A queued submit_query is handed the lock.
GateWake(t) ==
    /\ tpc[t] = "gatewait"
    /\ lock_woken /\ Head(lock_waiters) = t
    /\ GateSection(t, Tail(lock_waiters))
    /\ UNCHANGED <<ctx_done, session_mode>>
    /\ UNCHANGED <<apprVars, callVars, histVars, loopVars, extVars>>

\* The busy broadcast completes: leave the lock and return.
BusyReturn(t) ==
    /\ tpc[t] = "busy"
    /\ tpc' = [tpc EXCEPT ![t] = "idle"]
    /\ Release(lock_waiters)
    /\ UNCHANGED <<tctx, current_request, ctx_done, next_ctx, is_streaming,
                   stop_streaming, session_mode>>
    /\ UNCHANGED <<apprVars, callVars, histVars, loopVars, extVars>>

\* The `query` echo has been broadcast; the stop flag is reset and
\* route_chat is awaited.
QueryEcho(t) ==
    /\ tpc[t] = "opened"
    /\ stop_streaming' = FALSE
    /\ tpc' = [tpc EXCEPT ![t] = "chat"]
    /\ UNCHANGED <<tctx, current_request, ctx_done, next_ctx, lock_locked,
                   lock_waiters, lock_woken, is_streaming, session_mode>>
    /\ UNCHANGED <<apprVars, callVars, histVars, loopVars, extVars>>

\* route_chat returns; the turn is persisted and `conversation_saved` is
\* broadcast.
ChatReturns(t) ==
    /\ tpc[t] = "chat"
    /\ tpc' = [tpc EXCEPT ![t] = "saving"]
    /\ UNCHANGED <<tctx, current_request, ctx_done, next_ctx, lock_locked,
                   lock_waiters, lock_woken, is_streaming, stop_streaming,
                   session_mode>>
    /\ UNCHANGED <<apprVars, callVars, histVars, loopVars, extVars>>

\* An exception inside the try block: the `error` broadcast is awaited.
TurnRaises(t) ==
    /\ tpc[t] \in {"opened", "chat"}
    /\ tpc' = [tpc EXCEPT ![t] = "except"]
    /\ UNCHANGED <<tctx, current_request, ctx_done, next_ctx, lock_locked,
                   lock_waiters, lock_woken, is_streaming, stop_streaming,
                   session_mode>>
    /\ UNCHANGED <<apprVars, callVars, histVars, loopVars, extVars>>

\* finally: ctx.mark_done(), then the lock is requested.
Finally(t) ==
    /\ tpc[t] \in {"saving", "except"}
    /\ ctx_done' = ctx_done \cup {tctx[t]}
    /\ IF LockFree
       THEN ClearSection(t, lock_waiters)
       ELSE /\ lock_waiters' = Append(lock_waiters, t)
            /\ tpc' = [tpc EXCEPT ![t] = "finwait"]
            /\ UNCHANGED <<current_request, lock_locked, lock_woken,
                           is_streaming, session_mode>>
    /\ UNCHANGED <<tctx, next_ctx, stop_streaming>>
    /\ UNCHANGED <<apprVars, callVars, histVars, loopVars, extVars>>

\* The finally block is handed the lock.
FinallyWake(t) ==
    /\ tpc[t] = "finwait"
    /\ lock_woken /\ Head(lock_waiters) = t
    /\ ClearSection(t, Tail(lock_waiters))
    /\ UNCHANGED <<tctx, ctx_done, next_ctx, stop_streaming>>
    /\ UNCHANGED <<apprVars, callVars, histVars, loopVars, extVars>>

\* MessageHandler._handle_stop_streaming
HandleStopStreaming ==
    /\ stop_streaming' = TRUE
    /\ UNCHANGED <<turnVars, session_mode, apprVars, callVars, histVars, loopVars, extVars>>

InitAppState ==
    /\ tpc = [t \in Tasks |-> "idle"]
    /\ tctx = [t \in Tasks |-> None]
    /\ current_request = None
    /\ ctx_done = {}
    /\ next_ctx = 1
    /\ lock_locked = FALSE
    /\ lock_waiters = <<>>
    /\ lock_woken = FALSE
    /\ is_streaming = FALSE
    /\ stop_streaming = FALSE

\* ======================================================================
\* Approval store: services/approval_history.py
\* ======================================================================

PackageManagers == {"npm", "npx", "pip", "git", "docker", "cargo", "uv"}

\* A command string is the sequence of its words, single spaces between
\* them implied; the word " " stands for a further run of whitespace.
IsWord(t) == t # " "

\* command.strip().split()
split(command) == SelectSeq(command, IsWord)

\* _normalize_command: a command without words is its own signature, a
\* package manager keeps its sub-command, anything else its first word.
_normalize_command(command) ==
    LET parts == split(command)
    IN IF Len(parts) = 0 THEN command
       ELSE IF Len(parts) >= 2 /\ parts[1] \in PackageManagers
            THEN <<parts[1], parts[2]>>
            ELSE <<parts[1]>>

\* _compute_hash: the first 16 hex digits of SHA-256, taken as free of
\* collisions on the signatures of the model.
_compute_hash(signature) == <<"sha256", signature>>

is_command_approved(command) ==
    \E i \in 1..Len(approvals) :
        approvals[i].hash = _compute_hash(_normalize_command(command))

\* remember_approval that saves the new entry alone, losing the list.
remember_approval_DropsEarlier(command) ==
    IF is_command_approved(command) THEN approvals
    ELSE <<[hash |-> _compute_hash(_normalize_command(command)),
            command_signature |-> _normalize_command(command)]>>

\* The list remember_approval(command) saves.
remember_approval(command) ==
    IF is_command_approved(command) THEN approvals
    ELSE Append(approvals,
                [hash |-> _compute_hash(_normalize_command(command)),
                 command_signature |-> _normalize_command(command)])

\* The commands the store functions are applied to.
StoreCommands ==
    { <<>>, <<" ">>, <<"npm">>, <<"npm", "install">>,
      <<"npm", "install", "left-pad">>, <<" ", "npm", " ", "install">>,
      <<"ls", "-la">>, <<"git", "status">> }

\* remember_approval(command) applied to the store.
StoreRemember(command) ==
    /\ Len(approvals) < MaxStore
    /\ approvals' = remember_approval(command)
    /\ gained' = gained \cup {_normalize_command(command)}
    /\ UNCHANGED <<approval_events, approval_results, approval_remember,
                   ask_level, next_rid, session_event, session_set,
                   session_result, spc>>
    /\ UNCHANGED <<turnVars, stop_streaming, session_mode, callVars,
                   loopVars, extVars>>

\* ======================================================================
\* Approval rendezvous: services/terminal.py
\* ======================================================================

Put(d, k, v) == (k :> v) @@ d
Pop(d, k) == [x \in (DOMAIN d) \ {k} |-> d[x]]
Get(d, k, default) == IF k \in DOMAIN d THEN d[k] ELSE default

NoReturn == [approved |-> FALSE, how |-> "none"]

\* NeedsPrompt with the session-mode test lost.
NeedsPrompt_IgnoresSession(command) ==
    /\ ask_level # "off"
    /\ ~(ask_level = "on-miss" /\ is_command_approved(command))

\* check_approval prompts unless session mode or ask level `off` applies, or
\* the command is remembered under `on-miss`.
NeedsPrompt(command) ==
    /\ ~(session_mode \/ ask_level = "off")
    /\ ~(ask_level = "on-miss" /\ is_command_approved(command))

\* _cleanup_approval that forgets to pop the remember flag.
cleanup_KeepsRemember(r) ==
    /\ approval_events' = Pop(approval_events, r)
    /\ approval_results' = Pop(approval_results, r)
    /\ approval_remember' = approval_remember

\* TerminalService._cleanup_approval
_cleanup_approval(r) ==
    /\ approval_events' = Pop(approval_events, r)
    /\ approval_results' = Pop(approval_results, r)
    /\ approval_remember' = Pop(approval_remember, r)

\* check_approval up to its wait: draw the request id, return at once or
\* register the rendezvous and broadcast terminal_approval_request.  The
\* awaited broadcast and the awaited event are one suspension here: nothing
\* of the call runs between them.
check_approval(k, command) ==
    /\ cpc[k] \in {"idle", "done"}
    /\ next_rid <= MaxRequests
    /\ next_rid' = next_rid + 1
    /\ ccmd' = [ccmd EXCEPT ![k] = command]
    /\ crid' = [crid EXCEPT ![k] = next_rid]
    /\ cresp' = [cresp EXCEPT ![k] = "none"]
    /\ csweep' = [csweep EXCEPT ![k] = FALSE]
    /\ cswept' = [cswept EXCEPT ![k] = FALSE]
    /\ IF NeedsPrompt(command)
       THEN /\ approval_events' = Put(approval_events, next_rid, FALSE)
            /\ approval_results' = Put(approval_results, next_rid, FALSE)
            /\ approval_remember' = Put(approval_remember, next_rid, FALSE)
            /\ cbcast' = [cbcast EXCEPT ![k] = next_rid]
            /\ cret' = [cret EXCEPT ![k] = NoReturn]
            /\ cpc' = [cpc EXCEPT ![k] = "wait"]
       ELSE /\ cbcast' = [cbcast EXCEPT ![k] = None]
            /\ cret' = [cret EXCEPT ![k] =
                          [approved |-> TRUE, how |-> "auto"]]
            /\ cpc' = [cpc EXCEPT ![k] = "done"]
            /\ UNCHANGED <<approval_events, approval_results,
                           approval_remember>>
    /\ UNCHANGED <<ask_level, approvals, session_event, session_set,
                   session_result, spc>>
    /\ UNCHANGED <<turnVars, stop_streaming, session_mode, histVars, extBase>>

\* A check_approval call made outside the tool loop.
CheckApproval(k, command) ==
    /\ check_approval(k, command)
    /\ UNCHANGED <<loopVars, sessVars, recVars>>

\* ShouldRemember with the remember flag ignored.
ShouldRemember_IgnoresFlag(approved, should_remember) == approved

\* "Allow & Remember": what check_approval saves after the wait.
ShouldRemember(approved, should_remember) == approved /\ should_remember

\* The event was set: check_approval reads the decision, remembers it if
\* asked, cleans up and returns.
check_approval_resumes(k) ==
    /\ cpc[k] = "wait"
    /\ Get(approval_events, crid[k], FALSE)
    /\ LET approved == Get(approval_results, crid[k], FALSE)
           should_remember == Get(approval_remember, crid[k], FALSE)
       IN /\ approvals' = IF ShouldRemember(approved, should_remember)
                          THEN remember_approval(ccmd[k])
                          ELSE approvals
          /\ gained' = IF ShouldRemember(approved, should_remember)
                       THEN gained \cup {_normalize_command(ccmd[k])}
                       ELSE gained
          /\ cret' = [cret EXCEPT ![k] =
                        [approved |-> approved, how |-> "event"]]
    /\ _cleanup_approval(crid[k])
    /\ cpc' = [cpc EXCEPT ![k] = "done"]
    /\ cswept' = [cswept EXCEPT ![k] = FALSE]
    /\ UNCHANGED <<ccmd, crid, cbcast, cresp, csweep>>
    /\ UNCHANGED <<ask_level, next_rid, session_event, session_set,
                   session_result, spc>>
    /\ UNCHANGED <<turnVars, stop_streaming, session_mode, loopVars, extRest>>

\* A check_approval call resumes, whichever turn made it.
ApprovalResume(k) ==
    /\ check_approval_resumes(k)
    /\ UNCHANGED sessVars

\* The 120-second deadline elapses with the event unset: asyncio.wait_for
\* raises TimeoutError.
check_approval_times_out(k) ==
    /\ cpc[k] = "wait"
    /\ ~Get(approval_events, crid[k], FALSE)
    /\ _cleanup_approval(crid[k])
    /\ cret' = [cret EXCEPT ![k] =
                  [approved |-> FALSE, how |-> "deadline"]]
    /\ cpc' = [cpc EXCEPT ![k] = "done"]
    /\ cswept' = [cswept EXCEPT ![k] = FALSE]
    /\ UNCHANGED <<ccmd, crid, cbcast, cresp, csweep>>
    /\ UNCHANGED <<ask_level, approvals, next_rid, session_event,
                   session_set, session_result, spc>>
    /\ UNCHANGED <<turnVars, stop_streaming, session_mode, histVars, loopVars, extRest>>

\* A check_approval call times out, whichever turn made it.
ApprovalDeadline(k) ==
    /\ check_approval_times_out(k)
    /\ UNCHANGED sessVars

\* The calls whose request id is r and that are still waiting.
Waiting(r) == {k \in Callers : cpc[k] = "wait" /\ crid[k] = r}

\* resolve_approval storing an approval whatever the user answered.
ResolvedDecision_AlwaysApproved(approved, remember) == TRUE

\* What resolve_approval stores as the decision.
ResolvedDecision(approved, remember) == approved

\* TerminalService.resolve_approval
resolve_approval(r, approved, remember) ==
    /\ IF r \notin DOMAIN approval_events
       THEN UNCHANGED <<approval_events, approval_results,
                        approval_remember, cresp, csweep>>
       ELSE /\ approval_results' =
                  Put(approval_results, r, ResolvedDecision(approved, remember))
            /\ approval_remember' = Put(approval_remember, r, remember)
            /\ approval_events' = Put(approval_events, r, TRUE)
            /\ cresp' = [k \in Callers |->
                           IF k \in Waiting(r)
                           THEN (IF approved THEN "yes" ELSE "no")
                           ELSE cresp[k]]
            /\ csweep' = [k \in Callers |->
                            IF k \in Waiting(r) THEN FALSE ELSE csweep[k]]
    /\ UNCHANGED <<cpc, ccmd, crid, cret, cbcast, cswept>>
    /\ UNCHANGED <<ask_level, approvals, next_rid, session_event,
                   session_set, session_result, spc>>
    /\ UNCHANGED <<turnVars, stop_streaming, session_mode, histVars, loopVars, extVars>>

\* The decisions cancel_all_pending leaves: every pending approval denied.
SweepResults == [r \in DOMAIN approval_results |->
                    IF r \in DOMAIN approval_events THEN FALSE
                    ELSE approval_results[r]]

\* The events cancel_all_pending leaves: every pending event set.
SweepEvents == [r \in DOMAIN approval_events |-> TRUE]

\* TerminalService.cancel_all_pending, the approval and session part.
cancel_all_pending ==
    /\ approval_results' = SweepResults
    /\ approval_events' = SweepEvents
    /\ csweep' = [k \in Callers |-> (cpc[k] = "wait") \/ csweep[k]]
    /\ cswept' = [k \in Callers |-> (cpc[k] = "wait") \/ cswept[k]]
    /\ IF session_event = "event" /\ ~session_set
       THEN session_set' = TRUE
       ELSE session_set' = session_set

\* ConversationService.clear_context: terminal_service.reset() after the
\* screenshots are cleared.
ClearContext ==
    /\ cancel_all_pending
    /\ session_mode' = FALSE
    /\ session_event' = "None"
    /\ session_result' = "None"
    /\ UNCHANGED <<approval_remember, ask_level, approvals, next_rid, spc>>
    /\ UNCHANGED <<cpc, ccmd, crid, cret, cbcast, cresp>>
    /\ UNCHANGED <<turnVars, stop_streaming, histVars, loopVars, extVars>>

\* The ask_level setter (PUT /api/terminal/settings/ask-level).
SetAskLevel(value) ==
    /\ ask_level' = IF value \in {"always", "on-miss", "off"}
                    THEN value ELSE ask_level
    /\ UNCHANGED <<approval_events, approval_results, approval_remember,
                   approvals, next_rid, session_event, session_set,
                   session_result, spc>>
    /\ UNCHANGED <<turnVars, stop_streaming, session_mode, callVars,
                   histVars, loopVars, extVars>>

\* clear_approvals (DELETE /api/terminal/approvals).
ClearApprovals ==
    /\ approvals' = <<>>
    /\ UNCHANGED <<approval_events, approval_results, approval_remember,
                   ask_level, next_rid, session_event, session_set,
                   session_result, spc>>
    /\ UNCHANGED <<turnVars, stop_streaming, session_mode, callVars,
                   histVars, loopVars, extVars>>

\* TerminalService.request_session up to its wait.
request_session ==
    /\ spc = "idle"
    /\ session_event' = "event"
    /\ session_set' = FALSE
    /\ session_result' = "None"
    /\ spc' = "wait"
    /\ UNCHANGED <<approval_events, approval_results, approval_remember,
                   ask_level, approvals, next_rid>>
    /\ UNCHANGED <<turnVars, stop_streaming, session_mode, callVars,
                   histVars, loopVars, extRest>>

\* A request_session call, whichever turn makes it.
RequestSession ==
    /\ request_session
    /\ UNCHANGED sessVars

\* TerminalService.resolve_session
resolve_session(approved) ==
    /\ session_result' = IF approved THEN "true" ELSE "false"
    /\ session_set' = IF session_event = "event" THEN TRUE ELSE session_set
    /\ UNCHANGED <<approval_events, approval_results, approval_remember,
                   ask_level, approvals, next_rid, session_event, spc>>
    /\ UNCHANGED <<turnVars, stop_streaming, session_mode, callVars,
                   histVars, loopVars, extVars>>

\* request_session after its event was set.
request_session_resumes ==
    /\ spc = "wait" /\ session_set
    /\ session_event' = "None"
    /\ session_mode' = IF session_result = "true" THEN TRUE ELSE session_mode
    /\ session_set' = FALSE
    /\ spc' = "idle"
    /\ UNCHANGED <<approval_events, approval_results, approval_remember,
                   ask_level, approvals, next_rid, session_result>>
    /\ UNCHANGED <<turnVars, stop_streaming, callVars, histVars, loopVars, extRest>>

\* request_session resumes, whichever turn made the call.
SessionResume ==
    /\ request_session_resumes
    /\ UNCHANGED sessVars

\* request_session when its 120-second deadline elapses.
request_session_times_out ==
    /\ spc = "wait" /\ ~session_set
    /\ session_event' = "None"
    /\ session_set' = FALSE
    /\ spc' = "idle"
    /\ UNCHANGED <<approval_events, approval_results, approval_remember,
                   ask_level, approvals, next_rid, session_result>>
    /\ UNCHANGED <<turnVars, stop_streaming, session_mode, callVars,
                   histVars, loopVars, extRest>>

\* request_session times out, whichever turn made the call.
SessionDeadline ==
    /\ request_session_times_out
    /\ UNCHANGED sessVars

\* TerminalService.end_session
EndSession ==
    /\ session_mode
    /\ session_mode' = FALSE
    /\ UNCHANGED <<turnVars, stop_streaming, apprVars, callVars, histVars,
                   loopVars, extVars>>

InitTerminal ==
    /\ session_mode = FALSE
    /\ approval_events = <<>>
    /\ approval_results = <<>>
    /\ approval_remember = <<>>
    /\ ask_level = "on-miss"
    /\ approvals = <<>>
    /\ next_rid = 1
    /\ session_event = "None"
    /\ session_set = FALSE
    /\ session_result = "None"
    /\ spc = "idle"

InitCalls ==
    /\ cpc = [k \in Callers |-> "idle"]
    /\ ccmd = [k \in Callers |-> <<>>]
    /\ crid = [k \in Callers |-> None]
    /\ cret = [k \in Callers |-> NoReturn]
    /\ cbcast = [k \in Callers |-> None]
    /\ cresp = [k \in Callers |-> "none"]
    /\ csweep = [k \in Callers |-> FALSE]
    /\ cswept = [k \in Callers |-> FALSE]
    /\ gained = {}

\* ======================================================================
\* Specifications
\* ======================================================================

InitIdleLoop ==
    /\ provider = "none"
    /\ lpc = "idle"
    /\ rounds = 0
    /\ tool_calls = 0
    /\ fn_name = "none"
    /\ h_approved = FALSE
    /\ n_calling = 0
    /\ n_complete = 0
    /\ spawned = FALSE

Clients == 1..MaxClients

Broadcasts == 1..MaxBroadcasts

InitBus ==
    /\ active_connections = <<>>
    /\ alive = {}
    /\ bpc = [b \in Broadcasts |-> "idle"]
    /\ bidx = [b \in Broadcasts |-> 0]
    /\ bdisc = [b \in Broadcasts |-> <<>>]
    /\ sendq = [c \in Clients |-> <<>>]
    /\ received = [c \in Clients |-> <<>>]
    /\ issued = <<>>
    /\ stayed = [b \in Broadcasts |-> {}]

NoAuto == [turn |-> None, session |-> None]

InitOwners ==
    /\ sowner = None
    /\ session_ctx = None
    /\ cowner = [k \in Callers |-> None]
    /\ last_auto = NoAuto

\* AppState.__init__ and TerminalService.__init__: no conversation, no
\* queued event; the table of terminal events is empty.
InitRec ==
    /\ conversation_id = None
    /\ result = "none"
    /\ saved_events = <<>>
    /\ queued_events = <<>>

\* No child was spawned yet.
NoChild == [kind |-> "none"]

\* Import of services/terminal.py: the environment of the process is
\* captured.
StartUp ==
    /\ _ORIGINAL_ENV = os_environ
    /\ _ORIGINAL_PATH = os_environ.PATH
    /\ child = NoChild

\* A core started on Linux with the usual PATH.
InitExec ==
    /\ _IS_WINDOWS = FALSE
    /\ os_environ = [PATH |-> "/usr/bin", PYTHONPATH |-> "",
                     GOOGLE_TOKEN_FILE |-> ""]
    /\ StartUp

\* connections, registry and tool lists of the manager, as one value.
Snapshot(c, r, o, w) ==
    [connections |-> c, registry |-> r, ollama |-> o, raw |-> w]

\* No operation of the manager has returned yet.
NoOp == [op |-> "none", server |-> "none", spawned |-> FALSE,
         failed |-> FALSE, before |-> Snapshot({}, <<>>, <<>>, <<>>)]

\* No call_tool has ended yet.
NoCall == [tool |-> "none", how |-> "none", text |-> "none",
           contacted |-> FALSE]

\* retrieve_tools has not been called yet.
NoRetrieval == [called |-> FALSE, disabled |-> FALSE, all_tools |-> <<>>,
                final_tools |-> <<>>]

\* McpToolManager.__init__ and ToolRetriever.__init__ but for the backend
InitManager ==
    /\ _connections = {}
    /\ _tool_registry = <<>>
    /\ _ollama_tools = <<>>
    /\ _raw_tools = <<>>
    /\ _initialized = FALSE
    /\ connecting = <<>>
    /\ dead = {}
    /\ last_op = NoOp
    /\ call_result = NoCall
    /\ _tool_embeddings = {}
    /\ retrieved = NoRetrieval

\* The manager and a retriever that found an Ollama embedding model.
InitRegistry ==
    /\ InitManager
    /\ _embedding_model_type = "ollama"

\* No tool result has been delivered yet.
InitTrunc ==
    /\ raw_length = 0
    /\ result_str_length = 0
    /\ delivered_by = "none"

\* TerminalService.__init__ and an empty terminal_events table.
InitEvents ==
    /\ _pending_events = <<>>
    /\ terminal_events = <<>>
    /\ n_events = 0
    /\ n_conversations = 0

\* The tasks that may be inside _kill_session: the run_command call
\* itself (its PTY timeout) and a kill requested from outside.
Killers == {"x", "k"}

\* kill_process has not been called; mark is the length of the event log
\* at the call.
NoKill == [text |-> "none", mark |-> 0]

\* No command is running.
InitPty ==
    /\ xpc = "idle"
    /\ mode = "none"
    /\ proc = "none"
    /\ reader = "none"
    /\ _alive = FALSE
    /\ done_event = FALSE
    /\ registered = FALSE
    /\ _active_process = FALSE
    /\ timed_out = FALSE
    /\ returned_sid = FALSE
    /\ kill_pc = [c \in Killers |-> "idle"]
    /\ emitted = <<>>
    /\ swept = FALSE
    /\ exit_code = 0
    /\ kill_result = NoKill

\* A new conversation: no history, nothing stored.
InitPersist ==
    /\ chat_history = <<>>
    /\ messages = <<>>

\* No turn is in its streaming phase.
InitGen ==
    /\ gen_provider = "none"
    /\ gen_pc = "idle"
    /\ cancelled_at_return = FALSE
    /\ gen_called = FALSE
    /\ n_chunks = 0
    /\ turn_events = <<>>

InitLate == InitTrunc /\ InitEvents /\ InitPty /\ InitPersist /\ InitGen

\* The subsystems further down, idle.
InitExt ==
    InitBus /\ InitOwners /\ InitRec /\ InitExec /\ InitRegistry /\ InitLate

Init == InitAppState /\ InitTerminal /\ InitCalls /\ InitIdleLoop /\ InitExt

NextTurn ==
    \/ \E t \in Tasks : SubmitQuery(t)
    \/ \E t \in Tasks : GateWake(t)
    \/ \E t \in Tasks : BusyReturn(t)
    \/ \E t \in Tasks : QueryEcho(t)
    \/ \E t \in Tasks : ChatReturns(t)
    \/ \E t \in Tasks : TurnRaises(t)
    \/ \E t \in Tasks : Finally(t)
    \/ \E t \in Tasks : FinallyWake(t)
    \/ HandleStopStreaming

SpecTurn == Init /\ [][NextTurn]_vars

NextApproval ==
    \/ \E k \in Callers, c \in Commands : CheckApproval(k, c)
    \/ \E k \in Callers : ApprovalResume(k)
    \/ \E k \in Callers : ApprovalDeadline(k)
    \/ \E r \in RequestIds, a \in BOOLEAN, m \in BOOLEAN :
          resolve_approval(r, a, m)
    \/ ClearContext
    \/ HandleStopStreaming
    \/ \E v \in {"always", "on-miss", "off"} : SetAskLevel(v)
    \/ ClearApprovals
    \/ RequestSession
    \/ \E a \in BOOLEAN : resolve_session(a)
    \/ SessionResume
    \/ SessionDeadline
    \/ EndSession

SpecApproval == Init /\ [][NextApproval]_vars

\* ======================================================================
\* Turns that use the terminal: submit_query with the session-mode and
\* approval calls its tool loop makes
\* ======================================================================

\* The check_approval call of the loop's run_command handler.
LoopCaller == 1

\* The tool loop of task t is suspended in request_session or in
\* check_approval.
Pending(t) ==
    \/ spc = "wait" /\ sowner = t
    \/ \E k \in Callers : cpc[k] = "wait" /\ cowner[k] = t

\* The tool loop of turn t calls request_session (request_session_mode).
TurnRequestSession(t) ==
    /\ tpc[t] = "chat"
    /\ ~Pending(t)
    /\ request_session
    /\ sowner' = t
    /\ UNCHANGED <<session_ctx, cowner, last_auto>>

\* That call resumes: an approval turns session mode on for its turn.
TurnSessionResume ==
    /\ sowner # None
    /\ request_session_resumes
    /\ session_ctx' = IF session_result = "true"
                      THEN tctx[sowner] ELSE session_ctx
    /\ sowner' = None
    /\ UNCHANGED <<cowner, last_auto>>

\* That call times out.
TurnSessionDeadline ==
    /\ sowner # None
    /\ request_session_times_out
    /\ sowner' = None
    /\ UNCHANGED <<session_ctx, cowner, last_auto>>

\* The tool loop of turn t runs a command: check_approval.
TurnCommand(t, k, command) ==
    /\ tpc[t] = "chat"
    /\ ~Pending(t)
    /\ check_approval(k, command)
    /\ cowner' = [cowner EXCEPT ![k] = IF NeedsPrompt(command) THEN t ELSE None]
    /\ last_auto' = IF session_mode
                    THEN [turn |-> tctx[t], session |-> session_ctx]
                    ELSE last_auto
    /\ UNCHANGED <<sowner, session_ctx, loopVars, recVars>>

\* The check_approval call of a turn resumes.
TurnApprovalResume(k) ==
    /\ cowner[k] # None
    /\ check_approval_resumes(k)
    /\ cowner' = [cowner EXCEPT ![k] = None]
    /\ UNCHANGED <<sowner, session_ctx, last_auto>>

\* The check_approval call of a turn times out.
TurnApprovalDeadline(k) ==
    /\ cowner[k] # None
    /\ check_approval_times_out(k)
    /\ cowner' = [cowner EXCEPT ![k] = None]
    /\ UNCHANGED <<sowner, session_ctx, last_auto>>

\* route_chat returns once the tool loop is not suspended.
TurnChatReturns(t) == ~Pending(t) /\ ChatReturns(t)

\* route_chat raises once the tool loop is not suspended.
TurnChatRaises(t) == ~Pending(t) /\ TurnRaises(t)

NextSession ==
    \/ \E t \in Tasks : SubmitQuery(t)
    \/ \E t \in Tasks : GateWake(t)
    \/ \E t \in Tasks : BusyReturn(t)
    \/ \E t \in Tasks : QueryEcho(t)
    \/ \E t \in Tasks : TurnChatReturns(t)
    \/ \E t \in Tasks : TurnChatRaises(t)
    \/ \E t \in Tasks : Finally(t)
    \/ \E t \in Tasks : FinallyWake(t)
    \/ \E t \in Tasks : TurnRequestSession(t)
    \/ \E a \in BOOLEAN : resolve_session(a)
    \/ TurnSessionResume
    \/ TurnSessionDeadline
    \/ \E t \in Tasks : TurnCommand(t, LoopCaller, <<"ls", "-la">>)
    \/ TurnApprovalResume(LoopCaller)
    \/ TurnApprovalDeadline(LoopCaller)
    \/ \E r \in RequestIds, a \in BOOLEAN : resolve_approval(r, a, FALSE)

SpecSession == Init /\ [][NextSession]_vars

NextStore ==
    \/ \E c \in StoreCommands : StoreRemember(c)
    \/ ClearApprovals

SpecStore == Init /\ [][NextStore]_vars

\* ======================================================================
\* Tool loops: mcp_integration/handlers.py (Ollama) and
\* mcp_integration/cloud_tool_handlers.py (Anthropic, OpenAI, Gemini)
\* ======================================================================

Providers == {"ollama", "anthropic", "openai", "gemini"}

\* The tools a response may name: run_command, read_output and
\* get_environment of the terminal server, list_directory of the filesystem
\* server.
ToolNames == {"run_command", "read_output", "get_environment",
              "list_directory"}

get_tool_server_name(fn) ==
    IF fn \in {"run_command", "read_output", "get_environment"}
    THEN "terminal" ELSE "filesystem"

\* cloud_tool_handlers._TERMINAL_TOOLS
_TERMINAL_TOOLS == {"run_command", "request_session_mode", "end_session_mode",
                    "send_input", "read_output", "kill_process"}

\* cloud_tool_handlers._is_terminal_tool; the Ollama loop intercepts the
\* same six names of the terminal server in its if/elif chain.
_is_terminal_tool(fn, server_name) ==
    server_name = "terminal" /\ fn \in _TERMINAL_TOOLS

\* Only the Ollama loop reads app_state.stop_streaming.
ChecksStop(p) == p = "ollama"

\* The loop broadcasts status `complete` for this call: always in the
\* Ollama loop, only for tools that are not terminal tools in the cloud
\* loops.
EmitsComplete(p, fn) ==
    p = "ollama" \/ ~_is_terminal_tool(fn, get_tool_server_name(fn))

\* The while condition of the four loops with the round cap lost.
LoopContinues_NoCap(has_tools, r) == has_tools

\* The while condition of the four loops.
LoopContinues(has_tools, r) == has_tools /\ r < MAX_MCP_TOOL_ROUNDS

\* The run_command handlers' `if not approved` with the test lost.
Denied_Never(a) == FALSE

\* The run_command handlers' `if not approved`.
Denied(a) == ~a

\* The locals of a returned check_approval call are gone.
ReturnConsumed(k) ==
    /\ cpc' = [cpc EXCEPT ![k] = "idle"]
    /\ ccmd' = [ccmd EXCEPT ![k] = <<>>]
    /\ crid' = [crid EXCEPT ![k] = None]
    /\ cret' = [cret EXCEPT ![k] = NoReturn]
    /\ cbcast' = [cbcast EXCEPT ![k] = None]
    /\ cresp' = [cresp EXCEPT ![k] = "none"]
    /\ csweep' = [csweep EXCEPT ![k] = FALSE]
    /\ cswept' = [cswept EXCEPT ![k] = FALSE]

LoopFrame == UNCHANGED <<turnVars, stop_streaming, session_mode, apprVars,
                         callVars, histVars, extVars>>

\* What a step of a tool handler leaves alone.
HandlerFrame == UNCHANGED <<turnVars, stop_streaming, session_mode, apprVars,
                            callVars, histVars, extBase, sessVars>>

\* The conversations that may be open when the loop runs.
ConversationIds == {None, 1}

\* _truncate_result (cloud loops) and the same cut in handle_mcp_tool_calls:
\* a result of more than 100000 characters is cut and marked.
LongResults == {"long output"}

_truncate_result(r) ==
    IF r \in LongResults
    THEN "long output... [Output truncated due to length]"
    ELSE r

\* What call_tool and the terminal helpers return.
ToolResults == {"output", "long output"}

\* event_data of a denied run_command.
DeniedEvent ==
    [exit_code |-> -1, output |-> "Command denied by user", denied |-> TRUE]

\* event_data of an executed run_command.
ExecutedEvent(created) ==
    [exit_code |-> IF created THEN 0 ELSE 1,
     output |-> IF created THEN "output" ELSE "BLOCKED: reason",
     denied |-> FALSE]

\* The handler queueing the event even though a conversation exists.
RecordEvent_AlwaysQueues(event_data) ==
    /\ queued_events' = Append(queued_events, event_data)
    /\ UNCHANGED saved_events

\* db.save_terminal_event with a conversation id, queue_terminal_event
\* without.
RecordEvent(event_data) ==
    IF conversation_id # None
    THEN /\ saved_events' = Append(saved_events, event_data)
         /\ UNCHANGED queued_events
    ELSE /\ queued_events' = Append(queued_events, event_data)
         /\ UNCHANGED saved_events

\* A tool-detection call returns: n tool calls, or it raises.  The first
\* call returns from the handler when it raised or named no tool; a
\* follow-up call that raised breaks out of the loop.
DetectionReturns(n, raised) ==
    /\ lpc \in {"detect", "followup"}
    /\ IF raised
       THEN lpc' = "returned" /\ UNCHANGED tool_calls
       ELSE /\ tool_calls' = n
            /\ lpc' = IF lpc = "detect" /\ n = 0 THEN "returned" ELSE "while"
    /\ UNCHANGED <<provider, rounds, fn_name, h_approved, n_calling,
                   n_complete, spawned>>
    /\ LoopFrame

\* `while <tool calls> and rounds < MAX_MCP_TOOL_ROUNDS: rounds += 1`, and
\* the Ollama loop's stop check at the top of the round.
WhileTest ==
    /\ lpc = "while"
    /\ IF LoopContinues(tool_calls > 0, rounds)
       THEN /\ rounds' = rounds + 1
            /\ lpc' = IF ChecksStop(provider) /\ stop_streaming
                      THEN "returned" ELSE "for"
       ELSE /\ rounds' = rounds
            /\ lpc' = "returned"
    /\ UNCHANGED <<provider, tool_calls, fn_name, h_approved, n_calling,
                   n_complete, spawned>>
    /\ LoopFrame

\* The for loop is exhausted: the follow-up detection call is issued,
\* unless the Ollama loop sees the stop flag.
ForExhausted ==
    /\ lpc = "for"
    /\ tool_calls = 0
    /\ lpc' = IF ChecksStop(provider) /\ stop_streaming
              THEN "returned" ELSE "followup"
    /\ UNCHANGED <<provider, rounds, tool_calls, fn_name, h_approved,
                   n_calling, n_complete, spawned>>
    /\ LoopFrame

\* The Ollama loop's stop check before each tool execution: break, and the
\* check before the follow-up call breaks again.
SkipOnStop ==
    /\ lpc = "for"
    /\ tool_calls > 0
    /\ ChecksStop(provider) /\ stop_streaming
    /\ lpc' = "returned"
    /\ UNCHANGED <<provider, rounds, tool_calls, fn_name, h_approved,
                   n_calling, n_complete, spawned>>
    /\ LoopFrame

\* The next tool call of the response is taken up.
TakesNext(fn) ==
    /\ lpc = "for"
    /\ tool_calls > 0
    /\ ~(ChecksStop(provider) /\ stop_streaming)
    /\ tool_calls' = tool_calls - 1
    /\ fn_name' = fn
    /\ h_approved' = FALSE
    /\ n_complete' = 0
    /\ spawned' = FALSE
    /\ result' = "none"
    /\ saved_events' = <<>>
    /\ queued_events' = <<>>
    /\ UNCHANGED <<provider, rounds, conversation_id>>

\* run_command: the handler calls check_approval.
DispatchRunCommand(command) ==
    /\ TakesNext("run_command")
    /\ check_approval(LoopCaller, command)
    /\ UNCHANGED sessVars
    /\ n_calling' = 0
    /\ lpc' = "approval"

\* check_approval returned to the run_command handler: denied, the handler
\* records the denied event and returns `Command denied by user`;
\* approved, it broadcasts status `calling` and executes.
RunCommandGate ==
    /\ lpc = "approval"
    /\ cpc[LoopCaller] = "done"
    /\ h_approved' = cret[LoopCaller].approved
    /\ ReturnConsumed(LoopCaller)
    /\ IF Denied(cret[LoopCaller].approved)
       THEN /\ n_calling' = n_calling
            /\ n_complete' = IF EmitsComplete(provider, fn_name)
                             THEN n_complete + 1 ELSE n_complete
            /\ RecordEvent(DeniedEvent)
            /\ result' = _truncate_result(DeniedEvent.output)
            /\ lpc' = "for"
       ELSE /\ n_calling' = n_calling + 1
            /\ n_complete' = n_complete
            /\ UNCHANGED <<result, saved_events, queued_events>>
            /\ lpc' = "execute"
    /\ UNCHANGED <<provider, rounds, tool_calls, fn_name, spawned>>
    /\ UNCHANGED conversation_id
    /\ UNCHANGED <<turnVars, stop_streaming, session_mode, apprVars, histVars,
                   extBase, sessVars>>

\* execute_command / execute_command_pty returns: it created a process, or
\* it rejected the command (blocked, bad directory) without creating one.
ExecuteCommand(created) ==
    /\ lpc = "execute"
    /\ spawned' = created
    /\ n_complete' = IF EmitsComplete(provider, fn_name)
                     THEN n_complete + 1 ELSE n_complete
    /\ RecordEvent(ExecutedEvent(created))
    /\ result' = _truncate_result(ExecutedEvent(created).output)
    /\ lpc' = "for"
    /\ UNCHANGED <<provider, rounds, tool_calls, fn_name, h_approved,
                   n_calling>>
    /\ UNCHANGED conversation_id
    /\ HandlerFrame

\* Another intercepted terminal tool: its helper runs, no status `calling`.
DispatchTerminalTool(fn) ==
    /\ fn # "run_command"
    /\ _is_terminal_tool(fn, get_tool_server_name(fn))
    /\ TakesNext(fn)
    /\ n_calling' = 0
    /\ lpc' = "helper"
    /\ HandlerFrame

\* The else branch, a standard tool: status `calling`, then
\* mcp_manager.call_tool.
DispatchMcpTool(fn) ==
    /\ ~_is_terminal_tool(fn, get_tool_server_name(fn))
    /\ TakesNext(fn)
    /\ n_calling' = 1
    /\ lpc' = "call"
    /\ HandlerFrame

\* The helper or call_tool returned; the loop broadcasts the result.
ToolReturns(r) ==
    /\ lpc \in {"call", "helper"}
    /\ n_complete' = IF EmitsComplete(provider, fn_name)
                     THEN n_complete + 1 ELSE n_complete
    /\ result' = _truncate_result(r)
    /\ lpc' = "for"
    /\ UNCHANGED <<provider, rounds, tool_calls, fn_name, h_approved,
                   n_calling, spawned>>
    /\ UNCHANGED <<conversation_id, saved_events, queued_events>>
    /\ HandlerFrame

\* The handler is entered: the first detection call is in flight.
InitLoop ==
    /\ InitAppState /\ InitTerminal /\ InitCalls /\ InitBus /\ InitOwners
    /\ InitExec /\ InitRegistry /\ InitLate
    /\ conversation_id \in ConversationIds
    /\ result = "none"
    /\ saved_events = <<>>
    /\ queued_events = <<>>
    /\ provider \in Providers
    /\ lpc = "detect"
    /\ rounds = 0
    /\ tool_calls = 0
    /\ fn_name = "none"
    /\ h_approved = FALSE
    /\ n_calling = 0
    /\ n_complete = 0
    /\ spawned = FALSE

NextLoop ==
    \/ \E n \in 0..MaxToolCalls, raised \in BOOLEAN : DetectionReturns(n, raised)
    \/ WhileTest
    \/ ForExhausted
    \/ SkipOnStop
    \/ \E c \in Commands : DispatchRunCommand(c)
    \/ RunCommandGate
    \/ \E created \in BOOLEAN : ExecuteCommand(created)
    \/ \E fn \in ToolNames : DispatchTerminalTool(fn)
    \/ \E fn \in ToolNames : DispatchMcpTool(fn)
    \/ \E r \in ToolResults : ToolReturns(r)
    \/ HandleStopStreaming
    \/ ApprovalResume(LoopCaller)
    \/ ApprovalDeadline(LoopCaller)
    \/ \E r \in RequestIds, a \in BOOLEAN, m \in BOOLEAN :
          resolve_approval(r, a, m)

SpecLoop == InitLoop /\ [][NextLoop]_vars

\* ======================================================================
\* Child processes: TerminalService.execute_command, execute_command_pty
\* and McpToolManager.connect_server
\* ======================================================================

\* Lower-casing of the words the commands below are made of.
lower(w) ==
    CASE w = "MKFS" -> "mkfs"
      [] w = "/ETC/SHADOW" -> "/etc/shadow"
      [] w = "C:\\Windows\\System32" -> "c:\\windows\\system32"
      [] OTHER -> w

\* blocklist._get_windows_blocklist: the paths, lower-cased.
_get_windows_blocklist == {"c:\\windows\\system32"}

\* blocklist._get_unix_blocklist
_get_unix_blocklist == {"/etc/shadow", "~/.ssh"}

\* blocklist._BLOCKLIST
_BLOCKLIST == IF _IS_WINDOWS THEN _get_windows_blocklist ELSE _get_unix_blocklist

\* blocklist._DANGEROUS_RE, compiled with re.IGNORECASE: \bmkfs\b and
\* \brm\s+-rf\s+/\s*$ stand for the list.
MatchesDangerous(command) ==
    \/ \E i \in DOMAIN command : lower(command[i]) = "mkfs"
    \/ /\ Len(command) >= 3
       /\ lower(command[Len(command) - 2]) = "rm"
       /\ lower(command[Len(command) - 1]) = "-rf"
       /\ command[Len(command)] = "/"

\* blocklist.check_blocklist: a command is a sequence of words, a path is
\* contained in it when it is one of its words.
check_blocklist(command) ==
    LET cmd_lower == IF _IS_WINDOWS
                     THEN [i \in DOMAIN command |-> lower(command[i])]
                     ELSE command
    IN IF \E i \in DOMAIN cmd_lower : cmd_lower[i] \in _BLOCKLIST
       THEN [blocked |-> TRUE, reason |-> "Command touches protected OS path"]
       ELSE IF MatchesDangerous(command)
            THEN [blocked |-> TRUE, reason |-> "Command matches dangerous pattern"]
            ELSE [blocked |-> FALSE, reason |-> ""]

\* The commands a model may ask for.
ExecCommands == { <<"ls", "-la">>, <<"cat", "/etc/shadow">>,
                  <<"cat", "/ETC/SHADOW">>, <<"MKFS", "/dev/sda1">>,
                  <<"rm", "-rf", "/">>, <<"rm", "-rf", "/tmp/x">>,
                  <<"dir", "C:\\Windows\\System32">> }

\* The PATH values the core may be started with.
Paths == {"/usr/bin", "/opt/bin:/usr/bin"}

\* What a tool call may carry besides the arguments the handler reads: no
\* env, or one with a PATH of the model's choosing.
ArgsEnvs == {"", "/tmp/evil"}

\* The environment of the child with the PATH taken from the arguments of
\* the tool call.
ChildEnv_FromArgs(args_env) ==
    IF args_env = "" THEN [_ORIGINAL_ENV EXCEPT !.PATH = _ORIGINAL_PATH]
    ELSE [_ORIGINAL_ENV EXCEPT !.PATH = args_env]

\* env = dict(_ORIGINAL_ENV); env["PATH"] = _ORIGINAL_PATH
ChildEnv(args_env) == [_ORIGINAL_ENV EXCEPT !.PATH = _ORIGINAL_PATH]

\* The outcome of a call that created no process.
Rejected(kind, command, cwd_isdir, lib, text) ==
    [kind |-> kind, command |-> command, cwd_isdir |-> cwd_isdir,
     lib |-> lib, created |-> FALSE, result |-> text, exit_code |-> 1,
     env |-> os_environ]

\* The outcome of a call that created a process.
Created(kind, command, lib, env) ==
    [kind |-> kind, command |-> command, cwd_isdir |-> TRUE, lib |-> lib,
     created |-> TRUE, result |-> <<"output">>, exit_code |-> 0, env |-> env]

ExecFrame == UNCHANGED <<turnVars, stop_streaming, session_mode, apprVars,
                         callVars, histVars, loopVars, busVars, sessVars,
                         recVars, regVars, lateVars, _IS_WINDOWS, os_environ,
                         _ORIGINAL_ENV, _ORIGINAL_PATH>>

\* execute_command without the blocklist check.
execute_command_NoBlocklist(command, cwd_isdir, args_env, spawn_ok) ==
    /\ child' =
         IF ~cwd_isdir
         THEN Rejected("standard", command, cwd_isdir, TRUE,
                       <<"Error: ", "Working directory does not exist">>)
         ELSE IF ~spawn_ok
         THEN Rejected("standard", command, cwd_isdir, TRUE,
                       <<"Error executing command: ", "[exit code: 1]">>)
         ELSE Created("standard", command, TRUE, ChildEnv(args_env))
    /\ ExecFrame

\* TerminalService.execute_command: the working directory is checked
\* first, then the blocklist; create_subprocess_shell may raise.
execute_command(command, cwd_isdir, args_env, spawn_ok) ==
    /\ child' =
         IF ~cwd_isdir
         THEN Rejected("standard", command, cwd_isdir, TRUE,
                       <<"Error: ", "Working directory does not exist">>)
         ELSE IF check_blocklist(command).blocked
         THEN Rejected("standard", command, cwd_isdir, TRUE,
                       <<"BLOCKED: ", check_blocklist(command).reason>>)
         ELSE IF ~spawn_ok
         THEN Rejected("standard", command, cwd_isdir, TRUE,
                       <<"Error executing command: ", "[exit code: 1]">>)
         ELSE Created("standard", command, TRUE, ChildEnv(args_env))
    /\ ExecFrame

\* TerminalService.execute_command_pty: the import of winpty is tried
\* first, then the working directory, then the blocklist.
execute_command_pty(command, cwd_isdir, args_env, winpty, spawn_ok) ==
    /\ child' =
         IF ~winpty
         THEN Rejected("pty", command, cwd_isdir, winpty,
                       <<"Error: ", "pywinpty is not installed">>)
         ELSE IF ~cwd_isdir
         THEN Rejected("pty", command, cwd_isdir, winpty,
                       <<"Error: ", "Working directory does not exist">>)
         ELSE IF check_blocklist(command).blocked
         THEN Rejected("pty", command, cwd_isdir, winpty,
                       <<"BLOCKED: ", check_blocklist(command).reason>>)
         ELSE IF ~spawn_ok
         THEN Rejected("pty", command, cwd_isdir, winpty,
                       <<"Error: ", "PTY execution failed">>)
         ELSE Created("pty", command, winpty, ChildEnv(args_env))
    /\ ExecFrame

\* The callers of connect_server: init_mcp_servers passes no env,
\* connect_google_servers passes os.environ with the token file.
ServerCallers == {"init_mcp_servers", "connect_google_servers"}

\* The env the caller passes, where it passes one.
CallerEnv(caller) == [os_environ EXCEPT !.GOOGLE_TOKEN_FILE = "token.json"]

\* McpToolManager.connect_server up to the launch of the subprocess: the
\* environment is the caller's, or os.environ when there is none, with
\* PROJECT_ROOT put on PYTHONPATH.
connect_server(server_name, caller) ==
    /\ LET env == IF caller = "init_mcp_servers"
                  THEN os_environ ELSE CallerEnv(caller)
       IN child' = [kind |-> "server", command |-> <<server_name>>,
                    cwd_isdir |-> TRUE, lib |-> TRUE, created |-> TRUE,
                    result |-> <<"connected">>, exit_code |-> 0,
                    env |-> [env EXCEPT !.PYTHONPATH = "PROJECT_ROOT"]]
    /\ ExecFrame

\* A core started on either system with either PATH.
InitExecAny ==
    /\ InitAppState /\ InitTerminal /\ InitCalls /\ InitIdleLoop
    /\ InitBus /\ InitOwners /\ InitRec /\ InitRegistry /\ InitLate
    /\ _IS_WINDOWS \in BOOLEAN
    /\ os_environ \in [PATH : Paths, PYTHONPATH : {""},
                       GOOGLE_TOKEN_FILE : {""}]
    /\ StartUp

NextExec ==
    \/ \E c \in ExecCommands, d \in BOOLEAN, e \in ArgsEnvs, ok \in BOOLEAN :
          execute_command(c, d, e, ok)
    \/ \E c \in ExecCommands, d \in BOOLEAN, e \in ArgsEnvs, w \in BOOLEAN,
          ok \in BOOLEAN : execute_command_pty(c, d, e, w, ok)
    \/ \E n \in {"filesystem", "terminal"} : connect_server(n, "init_mcp_servers")
    \/ \E n \in {"gmail", "calendar"} : connect_server(n, "connect_google_servers")

SpecExec == InitExecAny /\ [][NextExec]_vars

\* ======================================================================
\* The bus: core/connection.py, ConnectionManager
\* ======================================================================

BusFrame == UNCHANGED <<turnVars, stop_streaming, session_mode, apprVars,
                        callVars, histVars, loopVars, execVars, sessVars,
                        recVars, regVars, lateVars>>

\* The elements of a list.
Elems(list) == {list[i] : i \in DOMAIN list}

\* list.remove(x) guarded by `x in list`: the first occurrence goes.
Remove(list, x) ==
    IF x \notin Elems(list) THEN list
    ELSE LET i == CHOOSE j \in DOMAIN list :
                     list[j] = x /\ \A k \in 1..(j - 1) : list[k] # x
         IN SubSeq(list, 1, i - 1) \o SubSeq(list, i + 1, Len(list))

\* The second loop of broadcast: disconnect every client whose send failed.
RECURSIVE RemoveAll(_, _)
RemoveAll(list, disconnected) ==
    IF disconnected = <<>> THEN list
    ELSE RemoveAll(Remove(list, Head(disconnected)), Tail(disconnected))

\* ConnectionManager.connect: accept, then append.  A socket object is
\* connected once.
Connect(c) ==
    /\ c \notin alive
    /\ c \notin Elems(active_connections)
    /\ received[c] = <<>>
    /\ \A b \in Broadcasts : c \notin Elems(bdisc[b])
    /\ alive' = alive \cup {c}
    /\ active_connections' = Append(active_connections, c)
    /\ UNCHANGED <<bpc, bidx, bdisc, sendq, received, issued, stayed>>
    /\ BusFrame

\* The peer closes the socket: sends to it raise from now on.
Drop(c) ==
    /\ c \in alive
    /\ alive' = alive \ {c}
    /\ stayed' = [b \in Broadcasts |-> stayed[b] \ {c}]
    /\ UNCHANGED <<active_connections, bpc, bidx, bdisc, sendq, received,
                   issued>>
    /\ BusFrame

\* ConnectionManager.disconnect, called by the endpoint on
\* WebSocketDisconnect.
Disconnect(c) ==
    /\ c \notin alive
    /\ c \in Elems(active_connections)
    /\ active_connections' = Remove(active_connections, c)
    /\ UNCHANGED <<alive, bpc, bidx, bdisc, sendq, received, issued, stayed>>
    /\ BusFrame

\* The turns of the for loop that do not suspend: send_text to a closed
\* socket raises at once and the client is noted in `disconnected`.
RECURSIVE Raising(_, _)
Raising(idx, disconnected) ==
    IF idx < Len(active_connections) /\ active_connections[idx + 1] \notin alive
    THEN Raising(idx + 1, Append(disconnected, active_connections[idx + 1]))
    ELSE [idx |-> idx, disconnected |-> disconnected]

\* `for connection in self.active_connections` up to the next suspension
\* in send_text, or to the end of broadcast: the iterator reads the live
\* list at its index; a send to an open socket hands the message over and
\* suspends.
Advance(b, idx, disconnected, queues) ==
    LET at == Raising(idx, disconnected)
    IN IF at.idx < Len(active_connections)
       THEN LET connection == active_connections[at.idx + 1]
            IN /\ bidx' = [bidx EXCEPT ![b] = at.idx + 1]
               /\ bpc' = [bpc EXCEPT ![b] = "for"]
               /\ received' = [received EXCEPT ![connection] = Append(@, b)]
               /\ sendq' = [queues EXCEPT ![connection] = Append(@, b)]
               /\ bdisc' = [bdisc EXCEPT ![b] = at.disconnected]
               /\ UNCHANGED active_connections
       ELSE /\ active_connections' =
                  RemoveAll(active_connections, at.disconnected)
            /\ bpc' = [bpc EXCEPT ![b] = "done"]
            /\ bidx' = [bidx EXCEPT ![b] = at.idx]
            /\ bdisc' = [bdisc EXCEPT ![b] = at.disconnected]
            /\ sendq' = queues
            /\ UNCHANGED received

\* broadcast is called: the call runs up to its first suspension.
Broadcast(b) ==
    /\ bpc[b] = "idle"
    /\ \A a \in Broadcasts : a < b => bpc[a] # "idle"
    /\ issued' = Append(issued, b)
    /\ stayed' = [stayed EXCEPT ![b] = Elems(active_connections) \cap alive]
    /\ Advance(b, 0, <<>>, sendq)
    /\ UNCHANGED alive
    /\ BusFrame

\* The socket whose send_text the broadcast awaits, if any.
Awaited(b) == {c \in Clients : b \in Elems(sendq[c])}

\* send_text completed or raised: the loop goes on.  The sends on one
\* socket complete in the order they were made.
BroadcastResumes(b) ==
    /\ bpc[b] = "for"
    /\ \A c \in Awaited(b) : Head(sendq[c]) = b
    /\ Advance(b, bidx[b], bdisc[b],
               [c \in Clients |-> IF c \in Awaited(b)
                                  THEN Tail(sendq[c]) ELSE sendq[c]])
    /\ UNCHANGED <<alive, issued, stayed>>
    /\ BusFrame

NextBus ==
    \/ \E c \in Clients : Connect(c)
    \/ \E c \in Clients : Drop(c)
    \/ \E c \in Clients : Disconnect(c)
    \/ \E b \in Broadcasts : Broadcast(b)
    \/ \E b \in Broadcasts : BroadcastResumes(b)

SpecBus == Init /\ [][NextBus]_vars

\* ======================================================================
\* The tool registry: mcp_integration/manager.py, McpToolManager
\* ======================================================================

\* A server init_mcp_servers connects and one of connect_google_servers.
StartupServers == {"terminal"}

GoogleServers == {"gmail"}

Servers == StartupServers \cup GoogleServers

ToolPool == {"read_file", "search_emails"}

\* The tool lists a server may advertise in answer to list_tools.
Advertised == { <<"read_file">>, <<"search_emails">>,
                <<"search_emails", "read_file">> }

\* _check_embedding_backend ends with one of these.
EmbeddingBackends == {"ollama", "sentence-transformers", "none"}

RegistryFrame == UNCHANGED <<turnVars, stop_streaming, session_mode, apprVars,
                             callVars, histVars, loopVars, busVars, execVars,
                             sessVars, recVars, lateVars>>

\* The entries a server's tools add to a tool list.  `by` names the server
\* that advertised the entry; the dictionaries of the code carry the name
\* only.
Entries(server_name, tools) ==
    [i \in DOMAIN tools |-> [name |-> tools[i], by |-> server_name]]

\* ToolRetriever.embed_tools: the keys of the cache after the call.
embed_tools(tools) ==
    IF _embedding_model_type = "none"
    THEN _tool_embeddings
    ELSE {tools[i].name : i \in DOMAIN tools}

is_server_connected(server_name) == server_name \in _connections

CurrentSnapshot ==
    Snapshot(_connections, _tool_registry, _ollama_tools, _raw_tools)

\* init_mcp_servers calls connect_server for a start-up server.
InitConnects(server_name) ==
    /\ ~_initialized
    /\ Len(connecting) < MaxConnecting
    /\ _initialized' = TRUE
    /\ connecting' = Append(connecting, server_name)
    /\ UNCHANGED <<_connections, _tool_registry, _ollama_tools, _raw_tools,
                   dead, last_op, call_result, _tool_embeddings,
                   _embedding_model_type, retrieved>>
    /\ RegistryFrame

\* connect_google_servers finds the server not connected and calls
\* connect_server, which suspends while the subprocess starts.
GoogleConnects(server_name) ==
    /\ ~is_server_connected(server_name)
    /\ Len(connecting) < MaxConnecting
    /\ connecting' = Append(connecting, server_name)
    /\ UNCHANGED <<_connections, _tool_registry, _ollama_tools, _raw_tools,
                   _initialized, dead, last_op, call_result, _tool_embeddings,
                   _embedding_model_type, retrieved>>
    /\ RegistryFrame

ConnectOutcomes == {"ok", "spawn fails", "list_tools fails"}

\* McpToolManager.connect_server from the handshake on.  A failed spawn or
\* handshake is logged and changes nothing; after it the connection is
\* stored, and every tool of list_tools is put in the registry and
\* appended to both tool lists, and the retriever re-embeds.  A failing
\* list_tools leaves the stored connection without tools.
RegisterServer(i, tools, outcome) ==
    /\ i \in DOMAIN connecting
    /\ Len(_ollama_tools) + Len(tools) <= MaxTools
    /\ LET server_name == connecting[i]
       IN /\ connecting' = [j \in 1..(Len(connecting) - 1) |->
                               IF j < i THEN connecting[j]
                               ELSE connecting[j + 1]]
          /\ last_op' = [op |-> "connect", server |-> server_name,
                         spawned |-> outcome # "spawn fails",
                         failed |-> outcome # "ok",
                         before |-> CurrentSnapshot]
          /\ IF outcome = "spawn fails"
             THEN UNCHANGED <<_connections, _tool_registry, _ollama_tools,
                              _raw_tools, _tool_embeddings, dead>>
             ELSE /\ _connections' = _connections \cup {server_name}
                  /\ IF outcome = "list_tools fails"
                     THEN UNCHANGED <<_tool_registry, _ollama_tools,
                                      _raw_tools, _tool_embeddings, dead>>
                     ELSE /\ _tool_registry' =
                               [n \in DOMAIN _tool_registry \cup Elems(tools)
                                  |-> IF n \in Elems(tools) THEN server_name
                                      ELSE _tool_registry[n]]
                          /\ _ollama_tools' =
                               _ollama_tools \o Entries(server_name, tools)
                          /\ _raw_tools' =
                               _raw_tools \o Entries(server_name, tools)
                          /\ _tool_embeddings' = embed_tools(_ollama_tools')
                          /\ dead' = dead \ {server_name}
    /\ call_result' = NoCall
    /\ retrieved' = NoRetrieval
    /\ UNCHANGED <<_initialized, _embedding_model_type>>
    /\ RegistryFrame

\* tools_to_remove of disconnect_server
tools_to_remove(server_name) ==
    {n \in DOMAIN _tool_registry : _tool_registry[n] = server_name}

\* disconnect_server without the rebuilding of the raw tool list.
disconnect_server_KeepsRawTools(server_name) ==
    /\ IF server_name \notin _connections
       THEN UNCHANGED <<_connections, _tool_registry, _ollama_tools,
                        _raw_tools, _tool_embeddings, dead>>
       ELSE LET gone == tools_to_remove(server_name)
                Kept(e) == e.name \notin gone
            IN /\ _connections' = _connections \ {server_name}
               /\ _tool_registry' =
                    [n \in DOMAIN _tool_registry \ gone |-> _tool_registry[n]]
               /\ _ollama_tools' = SelectSeq(_ollama_tools, Kept)
               /\ UNCHANGED _raw_tools
               /\ _tool_embeddings' = embed_tools(_ollama_tools')
               /\ dead' = dead \ {server_name}
    /\ last_op' = [op |-> "disconnect", server |-> server_name,
                   spawned |-> FALSE, failed |-> FALSE,
                   before |-> NoOp.before]
    /\ call_result' = NoCall
    /\ retrieved' = NoRetrieval
    /\ UNCHANGED <<_initialized, connecting, _embedding_model_type>>
    /\ RegistryFrame

\* McpToolManager.disconnect_server: a server that is not connected is a
\* no-op; otherwise the connection is closed and popped, the server's
\* names leave the registry, the lists are rebuilt without them and the
\* retriever re-embeds.
disconnect_server(server_name) ==
    /\ IF server_name \notin _connections
       THEN UNCHANGED <<_connections, _tool_registry, _ollama_tools,
                        _raw_tools, _tool_embeddings, dead>>
       ELSE LET gone == tools_to_remove(server_name)
                Kept(e) == e.name \notin gone
            IN /\ _connections' = _connections \ {server_name}
               /\ _tool_registry' =
                    [n \in DOMAIN _tool_registry \ gone |-> _tool_registry[n]]
               /\ _ollama_tools' = SelectSeq(_ollama_tools, Kept)
               /\ _raw_tools' = SelectSeq(_raw_tools, Kept)
               /\ _tool_embeddings' = embed_tools(_ollama_tools')
               /\ dead' = dead \ {server_name}
    /\ last_op' = [op |-> "disconnect", server |-> server_name,
                   spawned |-> FALSE, failed |-> FALSE,
                   before |-> NoOp.before]
    /\ call_result' = NoCall
    /\ retrieved' = NoRetrieval
    /\ UNCHANGED <<_initialized, connecting, _embedding_model_type>>
    /\ RegistryFrame

\* disconnect_google_servers, for one of its two servers.
disconnect_google_servers(server_name) ==
    /\ is_server_connected(server_name)
    /\ disconnect_server(server_name)

\* McpToolManager.cleanup: every connection is closed, and connections,
\* registry and both lists are cleared.
cleanup ==
    /\ _connections # {}
    /\ _connections' = {}
    /\ _tool_registry' = <<>>
    /\ _ollama_tools' = <<>>
    /\ _raw_tools' = <<>>
    /\ dead' = {}
    /\ last_op' = [op |-> "cleanup", server |-> "none", spawned |-> FALSE,
                   failed |-> FALSE,
                   before |-> NoOp.before]
    /\ call_result' = NoCall
    /\ retrieved' = NoRetrieval
    /\ UNCHANGED <<_initialized, connecting, _tool_embeddings,
                   _embedding_model_type>>
    /\ RegistryFrame

CallOutcomes == {"ok", "timeout", "channel error", "server dies"}

UnknownTool == "Error: Unknown tool"

TimedOut == "Error: Tool timed out after 180s"

\* McpToolManager.call_tool.  A name that is not in the registry returns
\* at once; otherwise the request goes to the session stored with the
\* name.  asyncio.TimeoutError is caught, any other exception of
\* session.call_tool leaves call_tool.  A server that has died answers no
\* request.
call_tool(tool_name, outcome) ==
    /\ IF tool_name \notin DOMAIN _tool_registry
       THEN /\ outcome = "ok"
            /\ call_result' = [tool |-> tool_name, how |-> "returned",
                               text |-> UnknownTool, contacted |-> FALSE]
            /\ UNCHANGED dead
       ELSE LET server == _tool_registry[tool_name]
            IN /\ server \in dead => outcome \in {"timeout", "channel error"}
               /\ call_result' =
                    [tool |-> tool_name,
                     how |-> IF outcome \in {"ok", "timeout"}
                             THEN "returned" ELSE "raised",
                     text |-> CASE outcome = "ok" -> "output"
                                [] outcome = "timeout" -> TimedOut
                                [] OTHER -> "none",
                     contacted |-> TRUE]
               /\ dead' = IF outcome = "server dies"
                          THEN dead \cup {server} ELSE dead
    /\ last_op' = [op |-> "call", server |-> "none", spawned |-> FALSE,
                   failed |-> FALSE,
                   before |-> NoOp.before]
    /\ retrieved' = NoRetrieval
    /\ UNCHANGED <<_connections, _tool_registry, _ollama_tools, _raw_tools,
                   _initialized, connecting, _tool_embeddings,
                   _embedding_model_type>>
    /\ RegistryFrame

\* `result` of the tool loops after `except Exception as e` around
\* call_tool.
HandlerResult(r) ==
    IF r.how = "raised" THEN "Error executing tool" ELSE r.text

AlwaysOn == {{}, {"read_file"}}

TopKs == {0, 1}

\* The names retrieve_tools may add by similarity: the top_k best of the
\* cached names that are not always on, whatever their scores are.
TopChoices(always_on, top_k, query_empty) ==
    IF top_k > 0 /\ _embedding_model_type # "none" /\ ~query_empty
       /\ _tool_embeddings # {}
    THEN LET candidates == _tool_embeddings \ always_on
         IN {S \in SUBSET candidates :
               Cardinality(S) <= top_k
               /\ (Cardinality(S) < top_k => S = candidates)}
    ELSE {{}}

\* ToolRetriever.retrieve_tools on the manager's Ollama list.
retrieve_tools(query_empty, always_on, top_k) ==
    /\ \E top \in TopChoices(always_on, top_k, query_empty) :
         LET selected_tool_names == always_on \cup top
             Selected(t) == t.name \in selected_tool_names
         IN retrieved' = [called |-> TRUE,
                          disabled |-> _embedding_model_type = "none",
                          all_tools |-> _ollama_tools,
                          final_tools |-> SelectSeq(_ollama_tools, Selected)]
    /\ last_op' = [op |-> "retrieve", server |-> "none", spawned |-> FALSE,
                   failed |-> FALSE,
                   before |-> NoOp.before]
    /\ call_result' = NoCall
    /\ UNCHANGED <<_connections, _tool_registry, _ollama_tools, _raw_tools,
                   _initialized, connecting, dead, _tool_embeddings,
                   _embedding_model_type>>
    /\ RegistryFrame

InitRegistryAny ==
    /\ InitAppState /\ InitTerminal /\ InitCalls /\ InitIdleLoop
    /\ InitBus /\ InitOwners /\ InitRec /\ InitExec /\ InitLate
    /\ InitManager
    /\ _embedding_model_type \in EmbeddingBackends

NextRegistry ==
    \/ \E n \in StartupServers : InitConnects(n)
    \/ \E n \in GoogleServers : GoogleConnects(n)
    \/ \E i \in 1..MaxConnecting, tools \in Advertised,
          outcome \in ConnectOutcomes : RegisterServer(i, tools, outcome)
    \/ \E n \in GoogleServers : disconnect_google_servers(n)
    \/ cleanup
    \/ \E n \in ToolPool, outcome \in CallOutcomes : call_tool(n, outcome)
    \/ \E q \in BOOLEAN, always_on \in AlwaysOn, top_k \in TopKs :
          retrieve_tools(q, always_on, top_k)

SpecRegistry == InitRegistryAny /\ [][NextRegistry]_vars

\* ======================================================================
\* The length of a tool result: handlers.py 212-220 and
\* cloud_tool_handlers._truncate_result
\* ======================================================================

\* The results longer than this are cut.
TruncateAt == 100000

\* len("... [Output truncated due to length]")
MarkerLength == 36

\* len(s[:k]) for a string of n characters
SliceLength(n, k) == IF n < k THEN n ELSE k

\* The cut without the slice.
TruncatedLength_NoSlice(n) ==
    IF n > TruncateAt THEN n + MarkerLength ELSE n

\* len of what the truncation makes of a result of n characters: the first
\* 100000 characters and the marker, or the result itself.
TruncatedLength(n) ==
    IF n > TruncateAt THEN SliceLength(n, TruncateAt) + MarkerLength ELSE n

\* The lengths of the results a tool may return.
ResultLengths ==
    {0} \cup ((TruncateAt - LengthSpread)..(TruncateAt + LengthSpread))

ToolLoops == {"ollama", "cloud"}

TruncFrame == UNCHANGED <<turnVars, stop_streaming, session_mode, apprVars,
                          callVars, histVars, loopVars, busVars, execVars,
                          regVars, sessVars, recVars, evVars, ptyVars,
                          persistVars, genVars>>

\* A tool loop has a result of n characters, truncates it and puts
\* result_str in the `complete` event and in the tool message.
DeliverResult(n, loop) ==
    /\ raw_length' = n
    /\ result_str_length' = TruncatedLength(n)
    /\ delivered_by' = loop
    /\ TruncFrame

NextTrunc == \E n \in ResultLengths, loop \in ToolLoops : DeliverResult(n, loop)

SpecTrunc == Init /\ [][NextTrunc]_vars

\* ======================================================================
\* Deferred terminal events: TerminalService.queue_terminal_event,
\* flush_pending_events and the first persistence of submit_query
\* ======================================================================

EventsFrame == UNCHANGED <<turnVars, stop_streaming, session_mode, apprVars,
                           callVars, histVars, loopVars, busVars, execVars,
                           regVars, sessVars, result, saved_events,
                           queued_events, truncVars, ptyVars, persistVars,
                           genVars>>

\* The row db.save_terminal_event inserts.  `deferred` tells whether the
\* row came from the queue; the table has no such column.
Row(cid, event, deferred) ==
    [conversation_id |-> cid, event |-> event, deferred |-> deferred]

\* The run_command handlers, once the command is denied or has run: the
\* event is saved if a conversation exists and queued otherwise.
CommandCompletes ==
    /\ n_events < MaxEvents
    /\ n_events' = n_events + 1
    /\ IF conversation_id # None
       THEN /\ terminal_events' =
                 Append(terminal_events,
                        Row(conversation_id, n_events', FALSE))
            /\ UNCHANGED _pending_events
       ELSE /\ _pending_events' = Append(_pending_events, n_events')
            /\ UNCHANGED terminal_events
    /\ UNCHANGED <<conversation_id, n_conversations>>
    /\ EventsFrame

\* The flush that leaves the queue as it is.
flush_pending_events_KeepsQueue(cid) ==
    /\ terminal_events' =
         terminal_events \o
         [i \in DOMAIN _pending_events |-> Row(cid, _pending_events[i], TRUE)]
    /\ UNCHANGED _pending_events

\* TerminalService.flush_pending_events
flush_pending_events(cid) ==
    /\ terminal_events' =
         terminal_events \o
         [i \in DOMAIN _pending_events |-> Row(cid, _pending_events[i], TRUE)]
    /\ _pending_events' = <<>>

\* submit_query after route_chat has returned: without a conversation one
\* is created and the queue is flushed under its id.
FirstPersist ==
    /\ IF conversation_id = None
       THEN /\ n_conversations < MaxConversations
            /\ n_conversations' = n_conversations + 1
            /\ conversation_id' = n_conversations'
            /\ flush_pending_events(conversation_id')
       ELSE UNCHANGED <<conversation_id, n_conversations, terminal_events,
                        _pending_events>>
    /\ UNCHANGED n_events
    /\ EventsFrame

\* ConversationService.clear_context: no conversation, and
\* terminal_service.reset() empties the queue.
ClearsContext ==
    /\ conversation_id' = None
    /\ _pending_events' = <<>>
    /\ UNCHANGED <<terminal_events, n_events, n_conversations>>
    /\ EventsFrame

\* ConversationService.resume_conversation of a saved conversation.
resume_conversation(cid) ==
    /\ cid \in 1..n_conversations
    /\ conversation_id' = cid
    /\ UNCHANGED <<_pending_events, terminal_events, n_events,
                   n_conversations>>
    /\ EventsFrame

NextEvents ==
    \/ CommandCompletes
    \/ FirstPersist
    \/ ClearsContext
    \/ \E cid \in 1..MaxConversations : resume_conversation(cid)

SpecEvents == Init /\ [][NextEvents]_vars

\* ======================================================================
\* One run_command execution: TerminalService.execute_command,
\* execute_command_pty, _kill_session, kill_running_command,
\* cancel_all_pending and the tail of the run_command handlers
\* ======================================================================

PtyFrame == UNCHANGED <<turnVars, stop_streaming, session_mode, apprVars,
                        callVars, histVars, loopVars, busVars, execVars,
                        regVars, sessVars, recVars, truncVars, evVars,
                        persistVars, genVars>>

\* broadcast_output and broadcast_complete for the request id.
Emit(event) == emitted' = Append(emitted, event)

\* The two terminal events of a request id.
Output == [type |-> "output"]
Complete(code) == [type |-> "complete", exit_code |-> code]

\* The exit codes a command can end with by itself.
ExitCodes == {0, 1}

Outputs(log) == Cardinality({i \in DOMAIN log : log[i] = Output})

\* execute_command: the subprocess is created.
StartStandard ==
    /\ xpc = "idle"
    /\ mode' = "standard"
    /\ proc' = "running"
    /\ _active_process' = TRUE
    /\ xpc' = "readline"
    /\ UNCHANGED <<reader, _alive, done_event, registered, timed_out,
                   returned_sid, kill_pc, emitted, swept>>
    /\ UNCHANGED <<exit_code, kill_result>>
    /\ PtyFrame

\* A line is read and streamed to the frontend.
ReadsLine ==
    /\ xpc = "readline"
    /\ Outputs(emitted) < MaxLog
    /\ Emit(Output)
    /\ xpc' = "line_sent"
    /\ UNCHANGED <<mode, proc, reader, _alive, done_event, registered,
                   _active_process, timed_out, returned_sid, kill_pc, swept>>
    /\ UNCHANGED <<exit_code, kill_result>>
    /\ PtyFrame

\* broadcast_output returns; the loop reads on.
LineSent ==
    /\ xpc = "line_sent"
    /\ xpc' = "readline"
    /\ UNCHANGED <<mode, proc, reader, _alive, done_event, registered,
                   _active_process, timed_out, returned_sid, kill_pc, emitted,
                   swept>>
    /\ UNCHANGED <<exit_code, kill_result>>
    /\ PtyFrame

\* readline returns no bytes: the process has closed its output.
ReadsEOF ==
    /\ xpc = "readline"
    /\ proc = "exited"
    /\ xpc' = "wait"
    /\ UNCHANGED <<mode, proc, reader, _alive, done_event, registered,
                   _active_process, timed_out, returned_sid, kill_pc, emitted,
                   swept>>
    /\ UNCHANGED <<exit_code, kill_result>>
    /\ PtyFrame

\* readline times out: the process is killed.
ReadTimesOut ==
    /\ xpc = "readline"
    /\ proc = "running"
    /\ timed_out' = TRUE
    /\ proc' = "exited"
    /\ xpc' = "wait"
    /\ UNCHANGED <<mode, reader, _alive, done_event, registered,
                   _active_process, returned_sid, kill_pc, emitted, swept>>
    /\ UNCHANGED <<exit_code, kill_result>>
    /\ PtyFrame

\* process.wait returns, the finally block runs, and a command that timed
\* out has its message streamed.
WaitReturns ==
    /\ xpc = "wait"
    /\ _active_process' = FALSE
    /\ IF timed_out
       THEN Emit(Output) /\ xpc' = "timeout_msg"
       ELSE UNCHANGED emitted /\ xpc' = "handler"
    /\ UNCHANGED <<mode, proc, reader, _alive, done_event, registered,
                   timed_out, returned_sid, kill_pc, swept>>
    /\ \E code \in ExitCodes :
           exit_code' = IF timed_out THEN -1 ELSE code
    /\ UNCHANGED kill_result
    /\ PtyFrame

\* The broadcast of the timeout message returns, and execute_command too.
TimeoutMsgSent ==
    /\ xpc = "timeout_msg"
    /\ xpc' = "handler"
    /\ UNCHANGED <<mode, proc, reader, _alive, done_event, registered,
                   _active_process, timed_out, returned_sid, kill_pc, emitted,
                   swept>>
    /\ UNCHANGED <<exit_code, kill_result>>
    /\ PtyFrame

\* The child process ends by itself.
ProcessExits ==
    /\ proc = "running"
    /\ proc' = "exited"
    /\ UNCHANGED <<xpc, mode, reader, _alive, done_event, registered,
                   _active_process, timed_out, returned_sid, kill_pc, emitted,
                   swept>>
    /\ UNCHANGED <<exit_code, kill_result>>
    /\ PtyFrame

\* execute_command_pty: the PTY process is spawned, the reader task
\* started and the session registered; a spawn that fails returns the
\* error.
StartPty(background, spawn_ok) ==
    /\ xpc = "idle"
    /\ mode' = IF background THEN "background" ELSE "pty"
    /\ IF spawn_ok
       THEN /\ UNCHANGED exit_code
            /\ proc' = "running"
            /\ reader' = "reading"
            /\ _alive' = TRUE
            /\ registered' = TRUE
            /\ xpc' = "pty_wait"
       ELSE /\ exit_code' = 1
            /\ xpc' = "handler"
            /\ UNCHANGED <<proc, reader, _alive, registered>>
    /\ UNCHANGED <<done_event, _active_process, timed_out, returned_sid,
                   kill_pc, emitted, swept>>
    /\ UNCHANGED kill_result
    /\ PtyFrame

\* _pty_reader: a chunk is read and broadcast raw.
ReaderReads ==
    /\ reader = "reading"
    /\ Outputs(emitted) < MaxLog
    /\ Emit(Output)
    /\ reader' = "sending"
    /\ UNCHANGED <<xpc, mode, proc, _alive, done_event, registered,
                   _active_process, timed_out, returned_sid, kill_pc, swept>>
    /\ UNCHANGED <<exit_code, kill_result>>
    /\ PtyFrame

\* _pty_reader: broadcast_output returns.
ReaderSent ==
    /\ reader = "sending"
    /\ reader' = "reading"
    /\ UNCHANGED <<xpc, mode, proc, _alive, done_event, registered,
                   _active_process, timed_out, returned_sid, kill_pc, emitted,
                   swept>>
    /\ UNCHANGED <<exit_code, kill_result>>
    /\ PtyFrame

\* _pty_reader: the read ends the loop; the session is marked done.
ReaderEnds ==
    /\ reader = "reading"
    /\ proc = "exited"
    /\ reader' = "done"
    /\ _alive' = FALSE
    /\ done_event' = TRUE
    /\ UNCHANGED <<xpc, mode, proc, registered, _active_process, timed_out,
                   returned_sid, kill_pc, emitted, swept>>
    /\ UNCHANGED <<exit_code, kill_result>>
    /\ PtyFrame

\* wait_for_completion returns True: completion is broadcast.
WaitCompletes ==
    /\ xpc = "pty_wait"
    /\ done_event
    /\ \E code \in ExitCodes :
           Emit(Complete(code)) /\ exit_code' = code
    /\ xpc' = "completing"
    /\ UNCHANGED <<mode, proc, reader, _alive, done_event, registered,
                   _active_process, timed_out, returned_sid, kill_pc, swept>>
    /\ UNCHANGED kill_result
    /\ PtyFrame

\* broadcast_complete returns: the session is popped and the call returns.
CompleteSent ==
    /\ xpc = "completing"
    /\ registered' = FALSE
    /\ xpc' = "handler"
    /\ UNCHANGED <<mode, proc, reader, _alive, done_event, _active_process,
                   timed_out, returned_sid, kill_pc, emitted, swept>>
    /\ UNCHANGED <<exit_code, kill_result>>
    /\ PtyFrame

\* A background session is still running after yield_ms: the call returns
\* its session id.
YieldExpires ==
    /\ xpc = "pty_wait"
    /\ mode = "background"
    /\ ~done_event
    /\ returned_sid' = TRUE
    /\ exit_code' = 0
    /\ xpc' = "handler"
    /\ UNCHANGED <<mode, proc, reader, _alive, done_event, registered,
                   _active_process, timed_out, kill_pc, emitted, swept>>
    /\ UNCHANGED kill_result
    /\ PtyFrame

\* _kill_session up to its first suspension: the reader task is
\* cancelled, and a live process is terminated in a thread; otherwise the
\* kill message is broadcast at once.
KillSessionEnters(c) ==
    /\ kill_pc[c] = "idle"
    /\ registered
    /\ reader' = IF reader \in {"reading", "sending"}
                 THEN "cancelled" ELSE reader
    /\ IF proc # "none" /\ _alive
       THEN /\ kill_pc' = [kill_pc EXCEPT ![c] = "terminate"]
            /\ UNCHANGED emitted
       ELSE /\ Emit(Output)
            /\ kill_pc' = [kill_pc EXCEPT ![c] = "output"]

\* _kill_session: terminate has returned; the kill message is broadcast.
KillTerminated(c) ==
    /\ kill_pc[c] = "terminate"
    /\ proc' = "exited"
    /\ _alive' = FALSE
    /\ Emit(Output)
    /\ kill_pc' = [kill_pc EXCEPT ![c] = "output"]
    /\ UNCHANGED <<xpc, mode, reader, done_event, registered,
                   _active_process, timed_out, returned_sid, swept>>
    /\ UNCHANGED <<exit_code, kill_result>>
    /\ PtyFrame

\* _kill_session: the kill message is out; completion is broadcast.
KillOutputSent(c) ==
    /\ kill_pc[c] = "output"
    /\ Emit(Complete(-1))
    /\ kill_pc' = [kill_pc EXCEPT ![c] = "complete"]
    /\ UNCHANGED <<xpc, mode, proc, reader, _alive, done_event, registered,
                   _active_process, timed_out, returned_sid, swept>>
    /\ UNCHANGED <<exit_code, kill_result>>
    /\ PtyFrame

\* _kill_session returning without the removal of the session.
KillCompleteSent_KeepsSession(c) ==
    /\ kill_pc[c] = "complete"
    /\ UNCHANGED registered
    /\ kill_pc' = [kill_pc EXCEPT ![c] = "idle"]
    /\ xpc' = IF c = "x" THEN "handler" ELSE xpc
    /\ exit_code' = IF c = "x" THEN -1 ELSE exit_code
    /\ kill_result' = IF c = "k" /\ kill_result.text = "pending"
                      THEN [kill_result EXCEPT !.text = "Session terminated"]
                      ELSE kill_result
    /\ UNCHANGED <<mode, proc, reader, _alive, done_event, _active_process,
                   timed_out, returned_sid, emitted, swept>>
    /\ PtyFrame

\* _kill_session: completion is out; the session is popped.  The
\* run_command call then returns as timed out.
KillCompleteSent(c) ==
    /\ kill_pc[c] = "complete"
    /\ registered' = FALSE
    /\ kill_pc' = [kill_pc EXCEPT ![c] = "idle"]
    /\ xpc' = IF c = "x" THEN "handler" ELSE xpc
    /\ exit_code' = IF c = "x" THEN -1 ELSE exit_code
    /\ kill_result' = IF c = "k" /\ kill_result.text = "pending"
                      THEN [kill_result EXCEPT !.text = "Session terminated"]
                      ELSE kill_result
    /\ UNCHANGED <<mode, proc, reader, _alive, done_event, _active_process,
                   timed_out, returned_sid, emitted, swept>>
    /\ PtyFrame

\* A foreground PTY command reaches its timeout: _kill_session, which
\* returns at once when the session is no longer registered.
ForegroundTimesOut ==
    /\ xpc = "pty_wait"
    /\ mode = "pty"
    /\ ~done_event
    /\ IF registered
       THEN /\ KillSessionEnters("x")
            /\ xpc' = "kill"
            /\ UNCHANGED exit_code
       ELSE /\ xpc' = "handler"
            /\ exit_code' = -1
            /\ UNCHANGED <<reader, kill_pc, emitted>>
    /\ UNCHANGED <<mode, proc, _alive, done_event, registered,
                   _active_process, timed_out, returned_sid, swept>>
    /\ UNCHANGED kill_result
    /\ PtyFrame

\* kill_running_command, the PTY part: a session that is alive is killed.
KillRunningSession ==
    /\ _alive
    /\ KillSessionEnters("k")
    /\ UNCHANGED <<xpc, mode, proc, _alive, done_event, registered,
                   _active_process, timed_out, returned_sid, swept>>
    /\ UNCHANGED <<exit_code, kill_result>>
    /\ PtyFrame

\* kill_running_command, the standard part: the active subprocess is
\* killed and the kill message broadcast.
KillRunningProcess ==
    /\ _active_process
    /\ Outputs(emitted) < MaxLog
    /\ proc' = "exited"
    /\ Emit(Output)
    /\ UNCHANGED <<xpc, mode, reader, _alive, done_event, registered,
                   _active_process, timed_out, returned_sid, kill_pc, swept>>
    /\ UNCHANGED <<exit_code, kill_result>>
    /\ PtyFrame

\* kill_process, the tool, called by the tool loop between run_command
\* calls: a session id that is not registered gets an
\* error string; a registered one goes through _kill_session and gets
\* "Session <id> terminated" when that returns.
kill_process ==
    /\ xpc \in {"idle", "done"}
    /\ kill_result.text # "pending"
    /\ IF registered
       THEN /\ KillSessionEnters("k")
            /\ kill_result' = [text |-> "pending", mark |-> Len(emitted)]
       ELSE /\ kill_result' = [text |-> "Error: No active session",
                               mark |-> Len(emitted)]
            /\ UNCHANGED <<reader, kill_pc, emitted>>
    /\ UNCHANGED <<xpc, mode, proc, _alive, done_event, registered,
                   _active_process, timed_out, returned_sid, swept,
                   exit_code>>
    /\ PtyFrame

\* cancel_all_pending, the process part: the standard subprocess is
\* killed; every registered session has its reader cancelled and its
\* process terminated, and the registry is cleared.
CancelAllProcesses ==
    /\ _active_process \/ registered
    /\ proc' = IF _active_process \/ (registered /\ proc # "none" /\ _alive)
               THEN "exited" ELSE proc
    /\ reader' = IF registered /\ reader \in {"reading", "sending"}
                 THEN "cancelled" ELSE reader
    /\ _alive' = IF registered /\ proc # "none" THEN FALSE ELSE _alive
    /\ registered' = FALSE
    /\ swept' = (swept \/ registered)
    /\ UNCHANGED <<xpc, mode, done_event, _active_process, timed_out,
                   returned_sid, kill_pc, emitted>>
    /\ UNCHANGED <<exit_code, kill_result>>
    /\ PtyFrame

\* The tail of the run_command handlers: completion is broadcast unless
\* the call returned the id of a session that is still running.
HandlerTail ==
    /\ xpc = "handler"
    /\ IF returned_sid THEN UNCHANGED emitted ELSE Emit(Complete(exit_code))
    /\ xpc' = "done"
    /\ UNCHANGED <<mode, proc, reader, _alive, done_event, registered,
                   _active_process, timed_out, returned_sid, kill_pc, swept>>
    /\ UNCHANGED <<exit_code, kill_result>>
    /\ PtyFrame

NextPty ==
    \/ StartStandard
    \/ ReadsLine
    \/ LineSent
    \/ ReadsEOF
    \/ ReadTimesOut
    \/ WaitReturns
    \/ TimeoutMsgSent
    \/ ProcessExits
    \/ \E background, spawn_ok \in BOOLEAN : StartPty(background, spawn_ok)
    \/ ReaderReads
    \/ ReaderSent
    \/ ReaderEnds
    \/ WaitCompletes
    \/ CompleteSent
    \/ YieldExpires
    \/ ForegroundTimesOut
    \/ \E c \in Killers : KillTerminated(c)
    \/ \E c \in Killers : KillOutputSent(c)
    \/ \E c \in Killers : KillCompleteSent(c)
    \/ KillRunningSession
    \/ KillRunningProcess
    \/ kill_process
    \/ CancelAllProcesses
    \/ HandlerTail

SpecPty == Init /\ [][NextPty]_vars

\* ======================================================================
\* The persistence step of ConversationService.submit_query
\* ======================================================================

PersistFrame == UNCHANGED <<turnVars, stop_streaming, session_mode, apprVars,
                            callVars, histVars, loopVars, busVars, execVars,
                            regVars, sessVars, recVars, truncVars, evVars,
                            ptyVars, genVars>>

\* A text is the sequence of its characters; " " is whitespace.
ResponseTexts == { <<>>, <<" ">>, <<"a">>, <<" ", "a", " ">> }

\* The tool calls route_chat returns with the text.
ToolCallLists == { <<>>, <<"run_command">> }

RECURSIVE lstrip(_)
lstrip(text) ==
    IF text # <<>> /\ Head(text) = " " THEN lstrip(Tail(text)) ELSE text

RECURSIVE rstrip(_)
rstrip(text) ==
    IF text # <<>> /\ text[Len(text)] = " "
    THEN rstrip(SubSeq(text, 1, Len(text) - 1))
    ELSE text

\* str.strip
strip(text) == rstrip(lstrip(text))

\* fallback_text of submit_query
fallback_text == <<"[", "e", "m", "p", "t", "y", "]">>

UserMessage == [role |-> "user", content |-> <<"q">>]

HistoryUserMessage == [role |-> "user", content |-> <<"q">>,
                       tool_calls |-> <<>>]

AssistantMessage(text) == [role |-> "assistant", content |-> text]

\* The assistant message of the history carries the tool calls, if any.
HistoryMessage(text, calls) ==
    [role |-> "assistant", content |-> text, tool_calls |-> calls]

\* What submit_query appends to chat_history after the user message.
HistoryReply(response_text, calls) ==
    IF strip(response_text) # <<>>
    THEN <<HistoryMessage(response_text, calls)>>
    ELSE IF calls # <<>> THEN <<HistoryMessage(fallback_text, calls)>>
    ELSE <<>>

\* What submit_query stores after the user message: response_text is the
\* fallback text where the fallback was appended.
StoredReply(response_text, calls) ==
    LET text == IF strip(response_text) = <<>> /\ calls # <<>>
                THEN fallback_text ELSE response_text
    IN IF strip(text) # <<>> THEN <<AssistantMessage(text)>> ELSE <<>>

\* submit_query from the return of route_chat to conversation_saved.
PersistTurn(response_text, calls) ==
    /\ Len(messages) < 2 * MaxPersisted
    /\ Cardinality({i \in DOMAIN messages : messages[i].role = "user"})
          < MaxPersisted
    /\ chat_history' = chat_history
                         \o <<HistoryUserMessage>>
                         \o HistoryReply(response_text, calls)
    /\ messages' = messages \o <<UserMessage>>
                     \o StoredReply(response_text, calls)
    /\ PersistFrame

\* ConversationService.clear_context: the history is emptied; the stored
\* rows stay.
NewConversation ==
    /\ chat_history # <<>>
    /\ chat_history' = <<>>
    /\ UNCHANGED messages
    /\ PersistFrame

NextPersist ==
    \/ \E response_text \in ResponseTexts, calls \in ToolCallLists :
          PersistTurn(response_text, calls)
    \/ NewConversation

SpecPersist == Init /\ [][NextPersist]_vars

\* ======================================================================
\* The streaming phase of a turn: llm/router.py, llm/ollama_provider.py,
\* llm/cloud_provider.py
\* ======================================================================

GenFrame == UNCHANGED <<turnVars, session_mode, apprVars, callVars, histVars,
                        loopVars, busVars, execVars, regVars, sessVars,
                        recVars, truncVars, evVars, ptyVars, persistVars>>

CloudProviders == {"anthropic", "openai", "gemini"}

\* broadcast_message(type) in the streaming phase.
Broadcasts_(type) == turn_events' = Append(turn_events, type)

\* The tool loop of a cloud turn returns; stream_cloud_chat runs up to its
\* first suspension: with the stop flag set it returns the empty text,
\* otherwise the provider's streaming call is made.
CloudStreamStarts(p) ==
    /\ gen_pc = "idle"
    /\ p \in CloudProviders
    /\ gen_provider' = p
    /\ cancelled_at_return' = stop_streaming
    /\ n_chunks' = 0
    /\ turn_events' = <<>>
    /\ IF stop_streaming
       THEN gen_called' = FALSE /\ gen_pc' = "returned"
       ELSE gen_called' = TRUE /\ gen_pc' = "streaming"
    /\ UNCHANGED stop_streaming
    /\ GenFrame

\* The stream delivers a text chunk: with the stop flag set the loop is
\* left, otherwise the chunk is broadcast.
CloudChunk ==
    /\ gen_pc = "streaming"
    /\ gen_provider \in CloudProviders
    /\ n_chunks < MaxChunks
    /\ n_chunks' = n_chunks + 1
    /\ IF stop_streaming
       THEN gen_pc' = "after_loop" /\ UNCHANGED turn_events
       ELSE Broadcasts_("response_chunk") /\ UNCHANGED gen_pc
    /\ UNCHANGED <<gen_provider, cancelled_at_return, gen_called,
                   stop_streaming>>
    /\ GenFrame

\* The stream ends.
CloudStreamEnds ==
    /\ gen_pc = "streaming"
    /\ gen_provider \in CloudProviders
    /\ gen_pc' = "after_loop"
    /\ UNCHANGED <<gen_provider, cancelled_at_return, gen_called, n_chunks,
                   turn_events, stop_streaming>>
    /\ GenFrame

\* response_complete is broadcast.
CloudCompletes ==
    /\ gen_pc = "after_loop"
    /\ gen_provider \in CloudProviders
    /\ Broadcasts_("response_complete")
    /\ gen_pc' = "complete_sent"
    /\ UNCHANGED <<gen_provider, cancelled_at_return, gen_called, n_chunks,
                   stop_streaming>>
    /\ GenFrame

\* token_usage is broadcast and the text returned.
CloudTokenUsage ==
    /\ gen_pc = "complete_sent"
    /\ Broadcasts_("token_usage")
    /\ gen_pc' = "returned"
    /\ UNCHANGED <<gen_provider, cancelled_at_return, gen_called, n_chunks,
                   stop_streaming>>
    /\ GenFrame

\* The streaming call raises: the error is broadcast and returned.
CloudRaises ==
    /\ gen_pc = "streaming"
    /\ gen_provider \in CloudProviders
    /\ Broadcasts_("error")
    /\ gen_pc' = "returned"
    /\ UNCHANGED <<gen_provider, cancelled_at_return, gen_called, n_chunks,
                   stop_streaming>>
    /\ GenFrame

\* handle_mcp_tool_calls returns to stream_ollama_chat, which starts the
\* producer thread and awaits its future.
OllamaStreamStarts ==
    /\ gen_pc = "idle"
    /\ gen_provider' = "ollama"
    /\ cancelled_at_return' = stop_streaming
    /\ n_chunks' = 0
    /\ turn_events' = <<>>
    /\ gen_called' = FALSE
    /\ gen_pc' = "producer"
    /\ UNCHANGED stop_streaming
    /\ GenFrame

\* producer: chat(stream=True) is called and the first chunk requested.
ProducerCalls ==
    /\ gen_pc = "producer"
    /\ gen_called' = TRUE
    /\ gen_pc' = "streaming"
    /\ UNCHANGED <<gen_provider, cancelled_at_return, n_chunks, turn_events,
                   stop_streaming>>
    /\ GenFrame

\* producer: a chunk arrives.  With the stop flag set the loop is left;
\* otherwise its token is scheduled for broadcast, and the chunk that is
\* marked done has token_usage scheduled and ends the stream.
OllamaChunk(done) ==
    /\ gen_pc = "streaming"
    /\ gen_provider = "ollama"
    /\ n_chunks < MaxChunks
    /\ n_chunks' = n_chunks + 1
    /\ IF stop_streaming
       THEN gen_pc' = "after_loop" /\ UNCHANGED turn_events
       ELSE IF done
            THEN /\ turn_events' = turn_events \o <<"token_usage">>
                 /\ gen_pc' = "after_loop"
            ELSE /\ Broadcasts_("response_chunk")
                 /\ UNCHANGED gen_pc
    /\ UNCHANGED <<gen_provider, cancelled_at_return, gen_called,
                   stop_streaming>>
    /\ GenFrame

\* producer after the loop: a stream that produced no text and was not
\* stopped is followed by the final message or a non-streamed fallback
\* call, which yields a chunk or an error; then response_complete is
\* scheduled and the future resolved.
OllamaCompletes ==
    /\ gen_pc = "after_loop"
    /\ gen_provider = "ollama"
    /\ IF ~stop_streaming
          /\ \A i \in DOMAIN turn_events : turn_events[i] # "response_chunk"
       THEN \E fallback \in {"response_chunk", "error"} :
               turn_events' = turn_events \o <<fallback, "response_complete">>
       ELSE Broadcasts_("response_complete")
    /\ gen_pc' = "returned"
    /\ UNCHANGED <<gen_provider, cancelled_at_return, gen_called, n_chunks,
                   stop_streaming>>
    /\ GenFrame

\* producer: chat raises; the error is scheduled and the future resolved.
OllamaRaises ==
    /\ gen_pc = "streaming"
    /\ gen_provider = "ollama"
    /\ Broadcasts_("error")
    /\ gen_pc' = "returned"
    /\ UNCHANGED <<gen_provider, cancelled_at_return, gen_called, n_chunks,
                   stop_streaming>>
    /\ GenFrame

\* The turn ends; the next one resets the stop flag when it is opened.
GenTurnEnds ==
    /\ gen_pc = "returned"
    /\ gen_pc' = "idle"
    /\ stop_streaming' = FALSE
    /\ UNCHANGED <<gen_provider, cancelled_at_return, gen_called, n_chunks,
                   turn_events>>
    /\ GenFrame

NextGen ==
    \/ \E p \in CloudProviders : CloudStreamStarts(p)
    \/ CloudChunk
    \/ CloudStreamEnds
    \/ CloudCompletes
    \/ CloudTokenUsage
    \/ CloudRaises
    \/ OllamaStreamStarts
    \/ ProducerCalls
    \/ \E done \in BOOLEAN : OllamaChunk(done)
    \/ OllamaCompletes
    \/ OllamaRaises
    \/ GenTurnEnds
    \/ HandleStopStreaming

SpecGen == Init /\ [][NextGen]_vars

\* ======================================================================
\* Claims
\* ======================================================================

\* C1: at most one turn is in flight at any time -- no two submit_query
\* tasks are between storing their context as current and marking it done.
C1_OneTurnInFlight == Cardinality({t \in Tasks : TurnOpen(t)}) <= 1

\* ----------------------------------------------------------------------
\* Helpers of the approval claims
\* ----------------------------------------------------------------------

\* The signatures a store holds.
Signatures(store) == {store[i].command_signature : i \in 1..Len(store)}

\* Call k draws its request id in this step (check_approval starts).
Starts(k) == crid'[k] # crid[k]

\* Call k leaves its wait in this step because its event was set.
Resolves(k) ==
    cpc[k] = "wait" /\ cpc'[k] = "done" /\ cret'[k].how = "event"

\* C2: a stop_streaming frame received while approvals are pending makes
\* every pending check_approval resolve to denied at once: right after the
\* frame is handled every pending request has its event set and its
\* decision false, so no call is left to wait for its deadline.
C2_StopDeniesPending ==
    [][HandleStopStreaming =>
         \A r \in DOMAIN approval_events :
            approval_events'[r] /\ ~approval_results'[r]]_vars

\* C7: check_approval broadcasts a terminal_approval_request exactly when
\* session mode is inactive and the ask level is `always`, or `on-miss`
\* with the command's normalized signature missing from the store; in every
\* other case it returns approved = true without prompting.
C7_PromptExactlyWhen ==
    [][\A k \in Callers : Starts(k) =>
          IF /\ ~session_mode
             /\ \/ ask_level = "always"
                \/ /\ ask_level = "on-miss"
                   /\ _normalize_command(ccmd'[k]) \notin Signatures(approvals)
          THEN cbcast'[k] = crid'[k] /\ cpc'[k] = "wait"
          ELSE /\ cbcast'[k] = None
               /\ cpc'[k] = "done"
               /\ cret'[k].approved]_vars

\* A call is waiting on its prompt while another returned without one.
C7_Witness ==
    \E k, j \in Callers :
        /\ cpc[k] = "wait" /\ cbcast[k] = crid[k]
        /\ cpc[j] = "done" /\ cret[j].how = "auto" /\ cbcast[j] = None

\* C8 as stated: a prompting check_approval returns (d, r) with r the id it
\* broadcast, d the approved bit given to resolve_approval for r when the
\* response came before the deadline, and d false on the deadline.
C8_Original ==
    \A k \in Callers :
        (cpc[k] = "done" /\ cbcast[k] # None) =>
            /\ crid[k] = cbcast[k]
            /\ (cret[k].how = "event" /\ cresp[k] # "none")
                  => (cret[k].approved <=> cresp[k] = "yes")
            /\ cret[k].how = "deadline" => ~cret[k].approved

\* C8 amended: d is the approved bit of the last resolve_approval for r,
\* unless cancel_all_pending ran after that response (or without one), in
\* which case d is false; d is false on the deadline; r is the id broadcast.
C8_Amended ==
    \A k \in Callers :
        (cpc[k] = "done" /\ cbcast[k] # None) =>
            /\ crid[k] = cbcast[k]
            /\ cret[k].how \in {"event", "deadline"}
            /\ cret[k].how = "event"
                  => (cret[k].approved <=> (cresp[k] = "yes" /\ ~csweep[k]))
            /\ cret[k].how = "deadline" => ~cret[k].approved

\* A prompted call returned the approval the user gave, another one the
\* denial.
C8_Witness ==
    \E k, j \in Callers :
        /\ cpc[k] = "done" /\ cret[k].how = "event" /\ cret[k].approved
        /\ cresp[k] = "yes" /\ ~csweep[k]
        /\ cpc[j] = "done" /\ cret[j].how = "deadline"

\* C9: when check_approval has returned, on every path, no event, decision
\* or remember flag for its request id remains in the approval state.
C9_CleanedUpOnReturn ==
    \A k \in Callers :
        cpc[k] = "done" =>
            /\ crid[k] \notin DOMAIN approval_events
            /\ crid[k] \notin DOMAIN approval_results
            /\ crid[k] \notin DOMAIN approval_remember

\* A call returned after cancel_all_pending woke it while the entries of
\* another pending request are still registered.
C9_Witness ==
    \E k \in Callers :
        /\ cpc[k] = "done" /\ cret[k].how = "event" /\ csweep[k]
        /\ \E r \in DOMAIN approval_events : r # crid[k]

\* The store gains signature sig in this step.
Gains(sig) ==
    sig \in Signatures(approvals') /\ sig \notin Signatures(approvals)

\* The store gains a signature exactly when a prompted call for a command
\* of that signature resolves with approved = true and remember = true.
GainsExactlyOnRemember ==
    /\ \A sig \in Signatures(approvals') :
          Gains(sig) =>
             \E k \in Callers :
                /\ Resolves(k)
                /\ cret'[k].approved
                /\ approval_remember[crid[k]]
                /\ sig = _normalize_command(ccmd[k])
    /\ \A k \in Callers :
          (Resolves(k) /\ cret'[k].approved /\ approval_remember[crid[k]])
             => _normalize_command(ccmd[k]) \in Signatures(approvals')
    /\ \A k \in Callers :
          (cpc[k] = "wait" /\ cpc'[k] = "done" /\ ~cret'[k].approved)
             => approvals' = approvals

Dispatches == lpc = "for" /\ lpc' \in {"approval", "call", "helper"}

\* The loop issues a follow-up tool-detection call in this step.
IssuesDetection == lpc = "for" /\ lpc' = "followup"

\* C3: in the tool loop of every provider, once the cancel flag is set no
\* further tool call is dispatched and no further tool-detection call is
\* issued.
C3_NoDispatchAfterStop ==
    [][stop_streaming => ~(Dispatches \/ IssuesDetection)]_vars

\* C4: the tool loop performs at most 30 rounds whatever the provider
\* answers; at the cap it returns although the provider still asks for
\* tools.
C4_AtMostThirtyRounds ==
    [][/\ rounds' <= MAX_MCP_TOOL_ROUNDS
       /\ (lpc = "while" /\ rounds = MAX_MCP_TOOL_ROUNDS /\ lpc' # lpc)
             => lpc' = "returned"]_vars

\* The loop returned after its 30th round with a response that names tools.
C4_Witness ==
    rounds = MAX_MCP_TOOL_ROUNDS /\ lpc = "returned" /\ tool_calls > 0

\* C5: for every dispatched tool call there is at most one tool_call event
\* with status complete, and when there is one, exactly one event with
\* status calling came before it.
C5_CompleteFollowsCalling ==
    /\ n_complete <= 1
    /\ n_complete = 1 => n_calling = 1

\* C6: no run_command tool call creates a subprocess or a PTY unless the
\* check_approval call made for it returned approved = true.
C6_SpawnOnlyIfApproved ==
    /\ spawned => (fn_name = "run_command" /\ h_approved)
    /\ lpc = "execute" => (fn_name = "run_command" /\ h_approved)

\* A run_command created its process, in a cloud loop, after the user
\* approved the prompt.
C6_Witness ==
    /\ spawned /\ h_approved /\ fn_name = "run_command"
    /\ provider # "ollama"

\* ----------------------------------------------------------------------
\* Claims of the approval store
\* ----------------------------------------------------------------------

\* C11: after remember_approval(c), is_command_approved(c') is true for
\* every command c' with the normalized signature of c, and it is false
\* for every command whose normalized signature was not remembered: the
\* call changes the answer for the commands of c's signature and for no
\* other, and a command never remembered is not approved.
C11_RememberThenApproved ==
    [][\A c \in StoreCommands : StoreRemember(c) =>
          \A q \in StoreCommands :
             /\ is_command_approved(q)' <=>
                   \/ is_command_approved(q)
                   \/ _normalize_command(q) = _normalize_command(c)
             /\ is_command_approved(q) => _normalize_command(q) \in gained
             /\ is_command_approved(q)' => _normalize_command(q) \in gained']_vars

\* Two signatures are stored: a command spelled differently but of a stored
\* signature is approved, commands of other signatures are not.
C11_Witness ==
    /\ Len(approvals) = 2
    /\ gained = {<<"npm", "install">>, <<" ">>}
    /\ is_command_approved(<<" ", "npm", " ", "install">>)
    /\ is_command_approved(<<"npm", "install", "left-pad">>)
    /\ ~is_command_approved(<<"npm">>)
    /\ ~is_command_approved(<<>>)

\* ----------------------------------------------------------------------
\* Claims of session mode
\* ----------------------------------------------------------------------

\* Task t finishes its turn in this step: the finally block has cleared
\* the current request.
TurnEnds(t) == tpc[t] \in {"saving", "except", "finwait"} /\ tpc'[t] = "idle"

DeniedReturn ==
    /\ lpc = "approval" /\ lpc' = "for"
    /\ ~cret[LoopCaller].approved

\* The number of denied events in a list of terminal events.
DeniedCount(events) == Cardinality({i \in DOMAIN events : events[i].denied})

\* The terminal events a handler step added to a list: none, or the last.
Added(before, after) ==
    IF after = before THEN <<>>
    ELSE IF Len(after) = Len(before) + 1 /\ SubSeq(after, 1, Len(before)) = before
         THEN <<after[Len(after)]>>
         ELSE <<"rewritten">>

IsDeniedEvent(ev) == ev.denied /\ ev.exit_code = -1

\* C13: when the approval for a run_command is denied the tool result is
\* exactly `Command denied by user` and exactly one terminal event with
\* denied = true and exit_code = -1 is recorded for it, persisted if a
\* conversation id exists and queued otherwise; no other step of the loop
\* records a denied event.
C13_DeniedRecordedOnce ==
    [][/\ DeniedReturn =>
            /\ result' = "Command denied by user"
            /\ LET saved == Added(saved_events, saved_events')
                   queued == Added(queued_events, queued_events')
               IN IF conversation_id # None
                  THEN Len(saved) = 1 /\ IsDeniedEvent(saved[1]) /\ queued = <<>>
                  ELSE Len(queued) = 1 /\ IsDeniedEvent(queued[1]) /\ saved = <<>>
       /\ ~DeniedReturn =>
            DeniedCount(saved_events') + DeniedCount(queued_events')
               <= DeniedCount(saved_events) + DeniedCount(queued_events)]_vars

\* A denied run_command was recorded in the table of the conversation
\* that exists.
C13_Witness ==
    /\ lpc = "for"
    /\ fn_name = "run_command"
    /\ ~h_approved
    /\ conversation_id # None
    /\ result = "Command denied by user"
    /\ saved_events = <<DeniedEvent>>
    /\ queued_events = <<>>

\* ----------------------------------------------------------------------
\* Claims of terminal tool interception
\* ----------------------------------------------------------------------

\* terminal_executor.TERMINAL_TOOLS: the tools of the terminal server the
\* core is to handle itself.
TERMINAL_TOOLS == {"run_command", "request_session_mode", "end_session_mode",
                   "send_input", "read_output", "kill_process",
                   "get_environment", "find_files"}

\* terminal_executor.is_terminal_tool
is_terminal_tool(fn, server_name) ==
    server_name = "terminal" /\ fn \in TERMINAL_TOOLS

\* mcp_manager.call_tool is in flight for the current tool call.
Forwarded == lpc = "call"

\* C14: a tool call whose owning server is the terminal server and whose
\* name is one of the eight terminal tools is handled inside the core and
\* is never forwarded through the manager's call_tool, in every provider's
\* tool loop.
C14_TerminalToolsIntercepted ==
    Forwarded => ~is_terminal_tool(fn_name, get_tool_server_name(fn_name))

\* ----------------------------------------------------------------------
\* Claims of the executors
\* ----------------------------------------------------------------------

\* The last call was made to one of the two executors with a command the
\* blocklist matches.
BlockedCall ==
    /\ child.kind \in {"standard", "pty"}
    /\ check_blocklist(child.command).blocked

StartsWithBlocked(text) == text[1] = "BLOCKED: "

Spawned == child.kind # "none" /\ child.created

Pos(list, x) ==
    IF x \in Elems(list) THEN CHOOSE i \in DOMAIN list : list[i] = x ELSE 0

\* C17: broadcasts are totally ordered per client: if broadcast A is issued
\* before broadcast B, every client that receives both receives A before B.
C17_OrderedPerClient ==
    \A c \in Clients : \A a, b \in Elems(received[c]) :
        Pos(issued, a) < Pos(issued, b)
            => Pos(received[c], a) < Pos(received[c], b)

\* C18: a broadcast reaches every client that stays connected for the
\* duration of the broadcast and whose send succeeds; a client whose send
\* fails is removed from the connection set and does not prevent delivery
\* to the others.
C18_ReachesEveryClient ==
    \A b \in Broadcasts : bpc[b] = "done" =>
        /\ \A c \in stayed[b] : b \in Elems(received[c])
        /\ \A c \in Elems(bdisc[b]) : c \notin Elems(active_connections)

\* ----------------------------------------------------------------------
\* Claims of the tool registry
\* ----------------------------------------------------------------------

\* The names of a tool list are pairwise different.
NoDuplicate(list) ==
    \A i, j \in DOMAIN list : list[i].name = list[j].name => i = j

\* C19: tool names form a set across all servers: every registered name is
\* owned by one server and appears once in each tool list, and a name that
\* is already registered is rejected when a later server advertises it,
\* leaving the earlier registration unchanged.
C19_NamesFormASet ==
    [][/\ NoDuplicate(_ollama_tools') /\ NoDuplicate(_raw_tools')
       /\ \A n \in DOMAIN _tool_registry :
             \/ n \notin DOMAIN _tool_registry'
             \/ _tool_registry'[n] = _tool_registry[n]]_vars

\* disconnect_server(s) returns in this step, s having been connected.
Disconnects(s) == s \in _connections /\ s \notin _connections'

\* C20: after disconnect_server(s) returns, s is no longer connected and no
\* tool whose owner was s remains in the registry or in a provider tool
\* list.
C20_NoToolOfDisconnected ==
    [][\A s \in Servers : Disconnects(s) =>
          /\ \A n \in DOMAIN _tool_registry' : _tool_registry'[n] # s
          /\ \A i \in DOMAIN _ollama_tools' : _ollama_tools'[i].by # s
          /\ \A i \in DOMAIN _raw_tools' : _raw_tools'[i].by # s]_vars

\* connect_server(s) returns in this step.
ConnectReturns(s) ==
    Len(connecting') < Len(connecting) /\ last_op'.server = s

\* disconnect_server(s) returns in this step, right after a
\* connect_server(s) that found s not connected.
DisconnectsAfterConnect(s) ==
    /\ last_op.op = "connect" /\ last_op.server = s
    /\ s \notin last_op.before.connections
    /\ last_op'.op = "disconnect" /\ last_op'.server = s

\* C21: connect_server(s) followed by disconnect_server(s) restores the
\* connections, the tool registry and the tool lists to their state before
\* the connect, whatever tools s advertises and whatever servers are
\* connected.
C21_ConnectThenDisconnectRestores ==
    [][\A s \in Servers : DisconnectsAfterConnect(s) =>
          Snapshot(_connections', _tool_registry', _ollama_tools',
                   _raw_tools') = last_op.before]_vars

\* C22: connect_server with the name of a connected server is a no-op: no
\* subprocess is spawned, and connections, registry and tool lists are
\* unchanged.
C22_ConnectConnectedIsNoOp ==
    [][\A s \in Servers : ConnectReturns(s) /\ is_server_connected(s) =>
          /\ ~last_op'.spawned
          /\ UNCHANGED <<_connections, _tool_registry, _ollama_tools,
                         _raw_tools>>]_vars

\* C23: after connect_server, disconnect_server or cleanup has completed,
\* the keys of the retriever's embedding cache are the names of the
\* registered tools (a retriever with an embedding backend).
C23_CacheKeysAreRegisteredNames ==
    /\ last_op.op \in {"connect", "disconnect", "cleanup"}
    /\ _embedding_model_type # "none"
    => _tool_embeddings = DOMAIN _tool_registry

\* C24: with the embedding backend disabled retrieve_tools returns the
\* full list it was given.
C24_DisabledReturnsFullList ==
    retrieved.called /\ retrieved.disabled =>
        retrieved.final_tools = retrieved.all_tools

\* C25: call_tool never raises: a timeout or a channel error returns an
\* error string, and a name that is not registered returns the
\* unknown-tool string without contacting a server.
C25_CallToolNeverRaises ==
    /\ call_result.how # "raised"
    /\ call_result.text = UnknownTool => ~call_result.contacted

\* call_tool ends in this step.
CallEnds == call_result'.how # "none" /\ connecting' = connecting

\* The server of the called tool had died before the call.
CalledDeadServer ==
    /\ call_result'.tool \in DOMAIN _tool_registry
    /\ _tool_registry[call_result'.tool] \in dead

\* C26: when a tool server dies during a call the call yields an error
\* string, and every later call to a tool of that server returns the
\* unknown-tool error until the server is connected again.
C26_DeadServerToolsUnknown ==
    [][CallEnds =>
         /\ dead' # dead =>
              HandlerResult(call_result') \in {"Error executing tool", TimedOut}
         /\ CalledDeadServer => HandlerResult(call_result') = UnknownTool]_vars

\* C27 as stated: every tool result string delivered to the provider, the
\* one of the tool message and of the `complete` event, is at most 100000
\* characters long.
C27_Original ==
    delivered_by # "none" => result_str_length <= 100000

\* C27 amended: a delivered result string is at most 100036 characters
\* long, the first 100000 characters of the result and the 36 characters
\* of the truncation marker; a result of at most 100000 characters is
\* delivered whole.
C27_Amended ==
    delivered_by # "none" =>
        /\ result_str_length <= 100000 + 36
        /\ raw_length <= 100000 => result_str_length = raw_length
        /\ raw_length > 100000 => result_str_length = 100000 + 36

\* A result of more than 100036 characters was delivered.
C27_Witness ==
    delivered_by # "none" /\ raw_length > 100000 + 36

\* A terminal event is produced in this step.
Produced == n_events' = n_events + 1

\* submit_query creates the conversation in this step.
ConversationCreated == n_conversations' = n_conversations + 1

\* The events of the rows of the table.
Persisted(table) == [i \in DOMAIN table |-> table[i].event]

\* C28: a terminal event produced while no conversation id is assigned is
\* in the in-memory queue only; when the conversation is created every
\* queued event is persisted under the new id once, in the order queued,
\* and the queue is then empty.
C28_DeferredEventsFlushed ==
    [][/\ Produced /\ conversation_id = None =>
            /\ _pending_events' = Append(_pending_events, n_events')
            /\ terminal_events' = terminal_events
       /\ ConversationCreated =>
            /\ terminal_events' =
                 terminal_events \o
                 [i \in DOMAIN _pending_events |->
                    Row(conversation_id', _pending_events[i], TRUE)]
            /\ _pending_events' = <<>>
       /\ \A i, j \in DOMAIN terminal_events' :
            terminal_events'[i].event = terminal_events'[j].event => i = j
       /\ Elems(_pending_events') \cap Elems(Persisted(terminal_events'))
            = {}]_vars

\* Two events that were queued are in the table, in the order queued, and
\* the queue is empty.
C28_Witness ==
    /\ _pending_events = <<>>
    /\ \E i, j \in DOMAIN terminal_events :
         /\ i < j
         /\ terminal_events[i].deferred /\ terminal_events[j].deferred
         /\ terminal_events[i].event < terminal_events[j].event
         /\ terminal_events[i].conversation_id = conversation_id

\* C29: for the request id of a run_command every terminal_output event
\* precedes its terminal_command_complete: no output event is broadcast
\* after the completion event, in standard, foreground-PTY and
\* background-PTY execution and when the command is killed or times out.
C29_OutputPrecedesComplete ==
    \A i, j \in DOMAIN emitted :
        emitted[i].type = "complete" /\ emitted[j] = Output => j < i

\* C30: when the global cancel-all terminates a registered PTY session,
\* the reader task is cancelled, the process terminated, the session
\* removed from the registry, and a terminal_command_complete event for
\* its request id emitted (at the latest when the run_command call that
\* started the session has ended).
C30_CancelAllEmitsComplete ==
    swept =>
        /\ reader \notin {"reading", "sending"}
        /\ proc # "running"
        /\ xpc = "done" /\ kill_pc = [c \in Killers |-> "idle"] =>
              \E i \in DOMAIN emitted : emitted[i].type = "complete"

\* kill_process returned for a registered session.
KillProcessTerminated ==
    kill_result.text = "pending" /\ kill_result'.text = "Session terminated"

\* kill_process returned for a session id that is not registered.
KillProcessError ==
    /\ kill_result' # kill_result
    /\ kill_result'.text = "Error: No active session"

\* C31: kill_process on a registered session id returns "Session <id>
\* terminated", has emitted a terminal_command_complete with exit_code -1
\* for the request id during the call and leaves the session
\* unregistered; on a session id that is not registered it returns the
\* error string and changes no state.
C31_KillProcessContract ==
    [][/\ KillProcessTerminated =>
            /\ ~registered'
            /\ \E i \in DOMAIN emitted' :
                  i > kill_result.mark /\ emitted'[i] = Complete(-1)
       /\ KillProcessError =>
            /\ ~registered
            /\ UNCHANGED <<xpc, mode, proc, reader, _alive, done_event,
                           registered, _active_process, timed_out,
                           returned_sid, kill_pc, emitted, swept,
                           exit_code>>]_vars

C31_Witness ==
    /\ kill_result.text = "Session terminated"
    /\ ~registered
    /\ returned_sid
    /\ \E i \in DOMAIN emitted :
          i > kill_result.mark /\ emitted[i] = Complete(-1)

\* The completion events in the log of the request id.
Completions == {i \in DOMAIN emitted : emitted[i].type = "complete"}

\* C37: for the request id of a run_command at most one
\* terminal_command_complete event is broadcast, in the standard,
\* foreground-PTY, background-PTY, timeout and kill paths.
C37_AtMostOneComplete ==
    Cardinality(Completions) <= 1

\* The tool names of a tool list.
Names(list) == {list[i].name : i \in DOMAIN list}

C39_FailedConnectChangesNothing ==
    [][\A s \in Servers : ConnectReturns(s) /\ last_op'.failed =>
          UNCHANGED <<_connections, _tool_registry, _ollama_tools,
                      _raw_tools>>]_vars

\* The check_approval call of k, which was waiting when cancel_all_pending
\* ran, returns in this step.
ReturnsAfterSweep(k) ==
    cpc[k] = "wait" /\ cswept[k] /\ cpc'[k] = "done"

\* C35: once cancel_all_pending has run, every check_approval call that
\* was pending at that moment returns approved = false and adds nothing to
\* the approval store, however later resolve_approval calls interleave
\* with the resumption of the waiting call.
C35_SweptCallsAreDenied ==
    [][\A k \in Callers : ReturnsAfterSweep(k) =>
          ~cret'[k].approved /\ approvals' = approvals]_vars

\* C36: a Stop received after a turn has been opened stays observable as
\* a set cancel flag until that turn ends: no step taken while the turn is
\* open resets a flag that is set.
C36_StopStaysSet ==
    [][\A t \in Tasks :
          TurnOpen(t) /\ TurnOpen(t)' /\ stop_streaming => stop_streaming']_vars

\* Every user message of a list of messages is followed by an assistant
\* message.
EveryUserAnswered(list) ==
    \A i \in DOMAIN list :
        list[i].role = "user" =>
            i < Len(list) /\ list[i + 1].role = "assistant"

\* C34: every turn that reaches the persistence step appends a user
\* message and an assistant message to the in-memory history and stores
\* both, so that no user message is left without an assistant reply.
C34_UserAlwaysAnswered ==
    EveryUserAnswered(chat_history) /\ EveryUserAnswered(messages)

\* C32: in every successful turn, for every provider, the token_usage
\* event is emitted after the response_complete event.
C32_TokenUsageAfterComplete ==
    \A i, j \in DOMAIN turn_events :
        turn_events[i] = "token_usage" /\ turn_events[j] = "response_complete"
            => j < i

\* The provider's streaming call is invoked in this step.
InvokesGeneration == ~gen_called /\ gen_called'

\* C33: if the turn has already been cancelled when the tool loop returns,
\* the provider's streaming generation call is not invoked, for every
\* provider.
C33_NoGenerationAfterCancel ==
    [][InvokesGeneration => ~cancelled_at_return']_vars

====
